---- MODULE Spec2Model ----
(***************************************************************************)
(* Model of the notation core of the songbook pipeline                     *)
(* (src/build_songbook.py): the tokenizer (tokenize_fallback,              *)
(* _indian_words_to_letter_notation, tokenize_from_indian), the note       *)
(* resolver (_parse_note_token), the event expansion                       *)
(* (_expand_tokens_to_events) and the measure-filling loop of              *)
(* make_musicxml_per_song.                                                 *)
(*                                                                         *)
(* A Python string is modelled as a sequence of one-character strings, so  *)
(* that parsing, stripping and pattern matching are computed character by  *)
(* character as the code does.                                             *)
(***************************************************************************)
EXTENDS Integers, Sequences, FiniteSets, TLC

\* ------------------------------------------------------------------
\* Bounds of the model
\* ------------------------------------------------------------------
MaxLines == 2
MaxSongTokens == 2
MaxBeats == 4
MaxPlain == 9
MaxLineLen == 5
MaxWords == 3
MaxOrnamentLen == 4
MaxOctave == 5
MaxAbsent == 1
MaxBatch == 3
MaxFileLines == 1
MaxExportSongs == 2
MaxSongFiles == 2
MaxOrder == 2
MaxFragments == 3

\* ------------------------------------------------------------------
\* Program constants (defaults of make_musicxml_per_song)
\* ------------------------------------------------------------------
DefaultDivisions == 2
DefaultBeats == 4
DefaultOctave == 4
DefaultNoteDuration == 1

\* ------------------------------------------------------------------
\* Module globals
\* ------------------------------------------------------------------
VARIABLES
    _NOTATION,         \* the mapping as loaded
    _TOKEN_TO_WESTERN  \* base letter -> [step, alter]

globals == <<_NOTATION, _TOKEN_TO_WESTERN>>

\* ------------------------------------------------------------------
\* String helpers (Python str methods used by the code)
\* ------------------------------------------------------------------
\* Characters outside ASCII are named atoms: RSQUO is U+2019 (curly
\* apostrophe), HELLIP is U+2026 (ellipsis glyph).
RSQUO == "rsquo"

HELLIP == "hellip"

\* FLAT is U+266D (the flat sign of a Western label)
FLAT == "flat"

IsWS(c) == c = " "

RECURSIVE LStrip(_)
LStrip(s) == IF s # <<>> /\ IsWS(Head(s)) THEN LStrip(Tail(s)) ELSE s

RECURSIVE RStrip(_)
RStrip(s) ==
    IF s # <<>> /\ IsWS(s[Len(s)]) THEN RStrip(SubSeq(s, 1, Len(s) - 1)) ELSE s

Strip(s) == RStrip(LStrip(s))

StartsWith(s, p) == Len(s) >= Len(p) /\ SubSeq(s, 1, Len(p)) = p

EndsWith(s, p) == Len(s) >= Len(p) /\ SubSeq(s, Len(s) - Len(p) + 1, Len(s)) = p

DropFirst(s) == SubSeq(s, 2, Len(s))

DropLast(s) == SubSeq(s, 1, Len(s) - 1)

\* str.replace(old, new): every non-overlapping occurrence, left to right
RECURSIVE Replace(_, _, _)
Replace(s, old, new) ==
    IF s = <<>> THEN <<>>
    ELSE IF StartsWith(s, old)
         THEN new \o Replace(SubSeq(s, Len(old) + 1, Len(s)), old, new)
         ELSE <<Head(s)>> \o Replace(Tail(s), old, new)

\* sep.join(parts)
RECURSIVE Join(_, _)
Join(parts, sep) ==
    IF parts = <<>> THEN <<>>
    ELSE IF Len(parts) = 1 THEN parts[1]
    ELSE parts[1] \o sep \o Join(Tail(parts), sep)

\* ------------------------------------------------------------------
\* Notation mapping: the built-in default and the loading
\* ------------------------------------------------------------------
BaseLetters == {"S", "R", "G", "m", "M", "P", "D", "N", "r", "g", "d", "n"}

TOKEN_TO_WESTERN ==
    [b \in BaseLetters |->
        CASE b = "S" -> [step |-> "C", alter |-> 0]
          [] b = "R" -> [step |-> "D", alter |-> 0]
          [] b = "G" -> [step |-> "E", alter |-> 0]
          [] b = "m" -> [step |-> "F", alter |-> 0]
          [] b = "M" -> [step |-> "F", alter |-> 1]
          [] b = "P" -> [step |-> "G", alter |-> 0]
          [] b = "D" -> [step |-> "A", alter |-> 0]
          [] b = "N" -> [step |-> "B", alter |-> 0]
          [] b = "r" -> [step |-> "D", alter |-> -1]
          [] b = "g" -> [step |-> "E", alter |-> -1]
          [] b = "d" -> [step |-> "A", alter |-> -1]
          [] b = "n" -> [step |-> "B", alter |-> -1]]

\* the dictionary returned by _default_notation_mapping()
_default_notation_mapping ==
    [octave_markers |-> [low |-> ".", middle |-> "", high |-> "'"],
     accidental_markers |-> [komal |-> "(k)", tivra |-> "(T)"],
     word_to_token |-> [Sa |-> "S", Re |-> "R", Ga |-> "G", Ma |-> "m",
                        Pa |-> "P", Dha |-> "D", Ni |-> "N"],
     komal_word_to_token |-> [Re |-> "r", Ga |-> "g", Dha |-> "d", Ni |-> "n"],
     tivra_word_to_token |-> [Ma |-> "M"],
     token_to_western |-> TOKEN_TO_WESTERN]

\* f restricted to the keys in D
Restrict(f, D) == [k \in D |-> f[k]]

\* notation_mapping.json: absent, present but not readable as JSON, or
\* holding a JSON object
AbsentFile == [exists |-> FALSE]

UnreadableFile == [exists |-> TRUE, readable |-> FALSE]

JsonFile(obj) == [exists |-> TRUE, readable |-> TRUE, json |-> obj]

\* json.loads of the file when it exists; the default when it does not, or
\* when reading or parsing raises
_load_notation_mapping(file) ==
    IF file.exists /\ file.readable THEN file.json
    ELSE _default_notation_mapping

\* the dictionary comprehension that builds _TOKEN_TO_WESTERN:
\* _NOTATION.get("token_to_western", {}) with get("step", "") and
\* get("alter", 0) on each entry
TokenTable(notation) ==
    LET entries == IF "token_to_western" \in DOMAIN notation
                   THEN notation.token_to_western
                   ELSE <<>>
    IN  [k \in DOMAIN entries |->
            [step |-> IF "step" \in DOMAIN entries[k] THEN entries[k].step ELSE "",
             alter |-> IF "alter" \in DOMAIN entries[k] THEN entries[k].alter ELSE 0]]

\* str.lower() on the letters of the komal patterns
Lower(c) ==
    CASE c = "R" -> "r"
      [] c = "G" -> "g"
      [] c = "D" -> "d"
      [] c = "N" -> "n"
      [] OTHER -> c

\* ------------------------------------------------------------------
\* Note resolver
\* ------------------------------------------------------------------
None == [kind |-> "None"]

\* re.match(r"^([RGDN])\((k|K)\)$", s)
MatchKomalInline(s) ==
    /\ Len(s) = 4
    /\ s[1] \in {"R", "G", "D", "N"}
    /\ s[2] = "("
    /\ s[3] \in {"k", "K"}
    /\ s[4] = ")"

\* str(n) of an integer: decimal digits, "-" in front when negative
RECURSIVE DigitsOf(_)
DigitsOf(n) ==
    LET d == <<"0", "1", "2", "3", "4", "5", "6", "7", "8", "9">>[(n % 10) + 1]
    IN  IF n < 10 THEN <<d>> ELSE DigitsOf(n \div 10) \o <<d>>

IntToStr(n) == IF n < 0 THEN <<"-">> \o DigitsOf(0 - n) ELSE DigitsOf(n)

\* Accidental rendering no symbol
AccidentalNone(alter) == <<>>

\* the accidental symbol of a label: flat, sharp or nothing
Accidental(alter) ==
    IF alter = -1 THEN <<FLAT>> ELSE IF alter = 1 THEN <<"#">> ELSE <<>>

\* OctaveOf ignoring the markers
OctaveOfUnmarked(default_octave, high, low) == default_octave

\* octave = default_octave + (1 if high else 0) - (1 if low else 0)
OctaveOf(default_octave, high, low) ==
    default_octave + (IF high THEN 1 ELSE 0) - (IF low THEN 1 ELSE 0)

_parse_note_token(tok, default_octave) ==
    LET raw0 == Strip(tok)
        raw1 == Replace(raw0, <<RSQUO>>, <<"'">>)
        lowPrefix == StartsWith(raw1, <<",">>)
        raw2 == IF lowPrefix THEN DropFirst(raw1) ELSE raw1
        high == EndsWith(raw2, <<"'">>)
        lowDot == ~high /\ EndsWith(raw2, <<".">>)
        low == lowPrefix \/ lowDot
        raw3 == IF high \/ lowDot THEN DropLast(raw2) ELSE raw2
        raw4 == IF MatchKomalInline(raw3) THEN <<Lower(raw3[1])>> ELSE raw3
    IN  IF raw0 = <<>> THEN None
        ELSE IF ~(Len(raw4) = 1 /\ raw4[1] \in DOMAIN _TOKEN_TO_WESTERN) THEN None
        ELSE [kind |-> "ParsedNote",
              step |-> _TOKEN_TO_WESTERN[raw4[1]].step,
              alter |-> _TOKEN_TO_WESTERN[raw4[1]].alter,
              octave |-> OctaveOf(default_octave, high, low),
              indian_label |-> Replace(tok, <<RSQUO>>, <<"'">>),
              western_label |-> <<_TOKEN_TO_WESTERN[raw4[1]].step>>
                                \o Accidental(_TOKEN_TO_WESTERN[raw4[1]].alter)
                                \o IntToStr(OctaveOf(default_octave, high, low))]

\* ------------------------------------------------------------------
\* Event expansion
\* ------------------------------------------------------------------
\* index of the first ")" of t, 0 when there is none
RECURSIVE FirstClose(_, _)
FirstClose(t, i) ==
    IF i > Len(t) THEN 0 ELSE IF t[i] = ")" THEN i ELSE FirstClose(t, i + 1)

\* _RE_KAN = ^\(([^)]+)\)(.+)$
KanClose(t) ==
    IF t # <<>> /\ t[1] = "("
    THEN LET j == FirstClose(t, 2) IN IF j >= 3 /\ j < Len(t) THEN j ELSE 0
    ELSE 0

\* _RE_MEEND = ^(.+)~(.+)$ : the first group is greedy, so the split is at
\* the last "~" that leaves both groups non-empty
RECURSIVE LastTilde(_, _)
LastTilde(t, i) ==
    IF i < 2 THEN 0 ELSE IF t[i] = "~" THEN i ELSE LastTilde(t, i - 1)

MeendSplit(t) == LastTilde(t, Len(t) - 1)

Event(ev, payload) == [ev |-> ev, payload |-> payload]

\* EventsOfToken with the slur opened in front of the first note of a meend
EventsOfTokenSlurFirst(tok) ==
    LET t == Strip(tok)
        k == KanClose(t)
        m == MeendSplit(t)
    IN  IF t = <<>> THEN <<>>
        ELSE IF EndsWith(t, <<":">>) THEN <<Event("hold", DropLast(t))>>
        ELSE IF k # 0
             THEN <<Event("grace", SubSeq(t, 2, k - 1)),
                    Event("note", SubSeq(t, k + 1, Len(t)))>>
        ELSE IF m # 0
             THEN <<Event("slur_start", <<>>),
                    Event("note", SubSeq(t, 1, m - 1)),
                    Event("note", SubSeq(t, m + 1, Len(t))),
                    Event("slur_stop", <<>>)>>
        ELSE <<Event("note", t)>>

EventsOfToken(tok) ==
    LET t == Strip(tok)
        k == KanClose(t)
        m == MeendSplit(t)
    IN  IF t = <<>> THEN <<>>
        ELSE IF EndsWith(t, <<":">>) THEN <<Event("hold", DropLast(t))>>
        ELSE IF k # 0
             THEN <<Event("grace", SubSeq(t, 2, k - 1)),
                    Event("note", SubSeq(t, k + 1, Len(t)))>>
        ELSE IF m # 0
             THEN <<Event("note", SubSeq(t, 1, m - 1)),
                    Event("slur_start", <<>>),
                    Event("note", SubSeq(t, m + 1, Len(t))),
                    Event("slur_stop", <<>>)>>
        ELSE <<Event("note", t)>>

RECURSIVE _expand_tokens_to_events(_)
_expand_tokens_to_events(tokens) ==
    IF tokens = <<>> THEN <<>>
    ELSE EventsOfToken(Head(tokens)) \o _expand_tokens_to_events(Tail(tokens))

\* ------------------------------------------------------------------
\* Tokenizer: tokenize_fallback
\* ------------------------------------------------------------------
\* the character class [SRGmMPDNrgdn] of the tokenizer's patterns
NoteClass == {"S", "R", "G", "m", "M", "P", "D", "N", "r", "g", "d", "n"}

\* the octave alternatives [RSQUO'] | \. of note_simple and kan
OctaveMarks == {RSQUO, "'", "."}

\* re.sub(r"\s+", " ", s)
RECURSIVE CollapseWS(_)
CollapseWS(s) ==
    IF s = <<>> THEN <<>>
    ELSE IF IsWS(Head(s)) THEN <<" ">> \o CollapseWS(LStrip(s))
    ELSE <<Head(s)>> \o CollapseWS(Tail(s))

\* index of the first occurrence of character c in s, 0 when there is none
RECURSIVE IndexOf(_, _, _)
IndexOf(s, c, i) ==
    IF i > Len(s) THEN 0 ELSE IF s[i] = c THEN i ELSE IndexOf(s, c, i + 1)

\* s.split(" ")
RECURSIVE Split(_)
Split(s) ==
    LET k == IndexOf(s, " ", 1)
    IN  IF k = 0 THEN <<s>>
        ELSE <<SubSeq(s, 1, k - 1)>> \o Split(SubSeq(s, k + 1, Len(s)))

\* sub in s
RECURSIVE Contains(_, _)
Contains(s, sub) ==
    IF Len(s) < Len(sub) THEN FALSE
    ELSE StartsWith(s, sub) \/ Contains(Tail(s), sub)

\* length of the run of character c that ends s
RECURSIVE TrailingRun(_, _)
TrailingRun(s, c) ==
    IF s # <<>> /\ s[Len(s)] = c THEN 1 + TrailingRun(DropLast(s), c) ELSE 0

\* re.sub(r"c{n,}$", "", s): drop the trailing run of c when it has at
\* least n characters
StripTrailingRun(s, c, n) ==
    LET r == TrailingRun(s, c)
    IN  IF r >= n THEN SubSeq(s, 1, Len(s) - r) ELSE s

\* komal_inline = ^([RGDN])\((k|K)\)$  (same pattern as in the resolver)
komal_inline(p) == MatchKomalInline(p)

\* note_simple = ^,?[SRGmMPDNrgdn](?:[RSQUO']|\.|)?(?::)?$
note_simple(p) ==
    LET q == IF StartsWith(p, <<",">>) THEN DropFirst(p) ELSE p
        rest == SubSeq(q, 2, Len(q))
    IN  /\ q # <<>>
        /\ q[1] \in NoteClass
        /\ \/ rest = <<>>
           \/ rest = <<":">>
           \/ Len(rest) = 1 /\ rest[1] \in OctaveMarks
           \/ Len(rest) = 2 /\ rest[1] \in OctaveMarks /\ rest[2] = ":"

\* meend = ^([SRGmMPDNrgdn])~([SRGmMPDNrgdn])$
meend(p) == Len(p) = 3 /\ p[1] \in NoteClass /\ p[2] = "~" /\ p[3] \in NoteClass

\* kan = ^\(([SRGmMPDNrgdn])\)([SRGmMPDNrgdn])([RSQUO']|\.|)?$
kan(p) ==
    /\ Len(p) \in {4, 5}
    /\ p[1] = "("
    /\ p[2] \in NoteClass
    /\ p[3] = ")"
    /\ p[4] \in NoteClass
    /\ Len(p) = 5 => p[5] \in OctaveMarks

\* norm_note re-attaching a leading low comma as a trailing dot
norm_noteLowAsDot(tok0) ==
    LET tok1 == Strip(tok0)
        low == StartsWith(tok1, <<",">>)
        tok2 == IF low THEN DropFirst(tok1) ELSE tok1
        hi == EndsWith(tok2, <<RSQUO>>) \/ EndsWith(tok2, <<"'">>)
        lo == ~hi /\ EndsWith(tok2, <<".">>)
        octv == IF hi THEN <<"'">> ELSE IF lo THEN <<".">> ELSE <<>>
        tok3 == IF hi \/ lo THEN DropLast(tok2) ELSE tok2
    IN  IF low THEN tok3 \o <<".">> ELSE tok3 \o octv

norm_note(tok0) ==
    LET tok1 == Strip(tok0)
        low == StartsWith(tok1, <<",">>)
        tok2 == IF low THEN DropFirst(tok1) ELSE tok1
        hi == EndsWith(tok2, <<RSQUO>>) \/ EndsWith(tok2, <<"'">>)
        lo == ~hi /\ EndsWith(tok2, <<".">>)
        octv == IF hi THEN <<"'">> ELSE IF lo THEN <<".">> ELSE <<>>
        tok3 == IF hi \/ lo THEN DropLast(tok2) ELSE tok2
        tok4 == IF komal_inline(tok3) THEN <<Lower(tok3[1])>> ELSE tok3
        tok5 == Replace(Replace(tok4, <<"(", "k", ")">>, <<>>), <<"(", "K", ")">>, <<>>)
    IN  IF low THEN <<",">> \o tok5 \o octv ELSE tok5 \o octv

\* the hold test of a fragment
HasHold(p) ==
    \/ Contains(p, <<".", ".", ".">>)
    \/ TrailingRun(p, "-") >= 2
    \/ TrailingRun(p, ".") >= 3
    \/ EndsWith(p, <<":">>)

\* the fragment with its hold pattern removed
StripHold(p) ==
    LET p1 == IF EndsWith(p, <<":">>) THEN DropLast(p) ELSE p
        p2 == StripTrailingRun(p1, "-", 2)
        p3 == StripTrailingRun(p2, ".", 3)
        p4 == Replace(p3, <<".", ".", ".">>, <<>>)
    IN  Strip(p4)

\* the body of the loop over parts: the tokens one fragment appends to out
TokensOfPart(p0) ==
    LET ps == Strip(p0)
        hold == IF HasHold(ps) THEN <<":">> ELSE <<>>
        p == IF HasHold(ps) THEN StripHold(ps) ELSE ps
    IN  IF ps = <<>> THEN <<>>
        ELSE IF kan(p)
             THEN <<(<<"(">> \o norm_note(<<p[2]>>) \o <<")">>
                     \o norm_note(SubSeq(p, 4, Len(p))))>>
        ELSE IF meend(p)
             THEN <<(norm_note(<<p[1]>>) \o <<"~">> \o norm_note(<<p[3]>>))>>
        ELSE IF komal_inline(p) THEN <<(norm_note(p) \o hold)>>
        ELSE IF note_simple(p) THEN <<(norm_note(p) \o hold)>>
        ELSE <<>>

\* TokensOfParts leaving the loop at the first unrecognized fragment
RECURSIVE TokensOfPartsBreak(_)
TokensOfPartsBreak(parts) ==
    IF parts = <<>> THEN <<>>
    ELSE IF TokensOfPart(Head(parts)) = <<>> /\ Strip(Head(parts)) # <<>> THEN <<>>
    ELSE TokensOfPart(Head(parts)) \o TokensOfPartsBreak(Tail(parts))

RECURSIVE TokensOfParts(_)
TokensOfParts(parts) ==
    IF parts = <<>> THEN <<>>
    ELSE TokensOfPart(Head(parts)) \o TokensOfParts(Tail(parts))

tokenize_fallback(indian_line) ==
    LET s0 == Strip(indian_line)
        s1 == Replace(Replace(s0, <<"|">>, <<" ">>), <<HELLIP>>, <<" ", ".", ".", ".", " ">>)
        s2 == CollapseWS(s1)
    IN  IF s0 = <<>> THEN <<>> ELSE TokensOfParts(Split(s2))

\* ------------------------------------------------------------------
\* Tokenizer: _indian_words_to_letter_notation and tokenize_from_indian
\* ------------------------------------------------------------------
UpperLetters ==
    <<"A", "B", "C", "D", "E", "F", "G", "H", "I", "J", "K", "L", "M",
      "N", "O", "P", "Q", "R", "S", "T", "U", "V", "W", "X", "Y", "Z">>

LowerLetters ==
    <<"a", "b", "c", "d", "e", "f", "g", "h", "i", "j", "k", "l", "m",
      "n", "o", "p", "q", "r", "s", "t", "u", "v", "w", "x", "y", "z">>

Digits == {"0", "1", "2", "3", "4", "5", "6", "7", "8", "9"}

UpperSet == {UpperLetters[k] : k \in 1..26}

LowerOf == [c \in UpperSet |-> LowerLetters[CHOOSE k \in 1..26 : UpperLetters[k] = c]]

\* case folding of re.IGNORECASE
CaseFold(c) == IF c \in UpperSet THEN LowerOf[c] ELSE c

WordChars == UpperSet \cup {LowerLetters[k] : k \in 1..26} \cup Digits \cup {"_"}

\* \w
IsWordChar(c) == c \in WordChars

\* \b in front of the word character at s[i]
WordBoundary(s, i) == i = 1 \/ ~IsWordChar(s[i - 1])

\* the literal lit at s[i..], compared case-insensitively when ci
LitAt(s, i, lit, ci) ==
    /\ i + Len(lit) - 1 <= Len(s)
    /\ \A j \in 1..Len(lit) :
          IF ci THEN CaseFold(s[i + j - 1]) = CaseFold(lit[j])
          ELSE s[i + j - 1] = lit[j]

\* \((?:a|b|...)\) at s[i..] for the letters of acc
AccAt(s, i, acc) ==
    /\ i + 2 <= Len(s)
    /\ s[i] = "("
    /\ s[i + 1] \in acc
    /\ s[i + 2] = ")"

\* A pattern made of an optional \b, a literal, and an optional
\* parenthesised accidental, with its replacement text.
Pat(lit, ci, wb, acc, repl) ==
    [lit |-> lit, ci |-> ci, wb |-> wb, acc |-> acc, repl |-> repl]

PatLen(s, i, pat) ==
    IF /\ LitAt(s, i, pat.lit, pat.ci)
       /\ pat.wb => WordBoundary(s, i)
       /\ pat.acc # {} => AccAt(s, i + Len(pat.lit), pat.acc)
    THEN Len(pat.lit) + (IF pat.acc # {} THEN 3 ELSE 0)
    ELSE 0

\* re.sub(pattern, repl, s), scanning from index i
RECURSIVE PatSubFrom(_, _, _)
PatSubFrom(s, i, pat) ==
    IF i > Len(s) THEN <<>>
    ELSE LET n == PatLen(s, i, pat)
         IN  IF n > 0 THEN pat.repl \o PatSubFrom(s, i + n, pat)
             ELSE <<s[i]>> \o PatSubFrom(s, i + 1, pat)

PatSub(s, pat) == PatSubFrom(s, 1, pat)

SwaraWords ==
    <<<<"S", "a">>, <<"R", "e">>, <<"G", "a">>, <<"M", "a">>, <<"P", "a">>,
      <<"D", "h", "a">>, <<"N", "i">>>>

\* length of the swara word (Sa|Re|Ga|Ma|Pa|Dha|Ni), any case, at s[i..]
SwaraWordLen(s, i) ==
    IF \E k \in 1..Len(SwaraWords) : LitAt(s, i, SwaraWords[k], TRUE)
    THEN Len(SwaraWords[CHOOSE k \in 1..Len(SwaraWords) : LitAt(s, i, SwaraWords[k], TRUE)])
    ELSE 0

AnyAcc == {"k", "K", "t", "T"}

\* (?i)\b(Sa|Re|Ga|Ma|Pa|Dha|Ni)([.'])(\((?:k|K|t|T)\)) -> \1\3\2
RECURSIVE SwapOctAccWord(_, _)
SwapOctAccWord(s, i) ==
    IF i > Len(s) THEN <<>>
    ELSE LET w == SwaraWordLen(s, i)
         IN  IF /\ w > 0
                /\ WordBoundary(s, i)
                /\ i + w <= Len(s)
                /\ s[i + w] \in {".", "'"}
                /\ AccAt(s, i + w + 1, AnyAcc)
             THEN SubSeq(s, i, i + w - 1) \o SubSeq(s, i + w + 1, i + w + 3)
                  \o <<s[i + w]>> \o SwapOctAccWord(s, i + w + 4)
             ELSE <<s[i]>> \o SwapOctAccWord(s, i + 1)

\* (?i)([SRGmMPDNrgdn])([.'])(\((?:k|K|t|T)\)) -> \1\3\2
RECURSIVE SwapOctAccLetter(_, _)
SwapOctAccLetter(s, i) ==
    IF i > Len(s) THEN <<>>
    ELSE IF /\ CaseFold(s[i]) \in {"s", "r", "g", "m", "p", "d", "n"}
            /\ i + 1 <= Len(s)
            /\ s[i + 1] \in {".", "'"}
            /\ AccAt(s, i + 2, AnyAcc)
         THEN <<s[i]>> \o SubSeq(s, i + 2, i + 4) \o <<s[i + 1]>>
              \o SwapOctAccLetter(s, i + 5)
         ELSE <<s[i]>> \o SwapOctAccLetter(s, i + 1)

\* _RE_KOMAL_INLINE_ANYWHERE = ([RGDN])\((k|K)\) -> the letter in lower case
RECURSIVE KomalInlineAnywhere(_, _)
KomalInlineAnywhere(s, i) ==
    IF i > Len(s) THEN <<>>
    ELSE IF s[i] \in {"R", "G", "D", "N"} /\ AccAt(s, i + 1, {"k", "K"})
         THEN <<Lower(s[i])>> \o KomalInlineAnywhere(s, i + 4)
         ELSE <<s[i]>> \o KomalInlineAnywhere(s, i + 1)

\* SpaceNotes inserting no space between adjacent note symbols
SpaceNotesNone(s, i) == SubSeq(s, i, Len(s))

\* ([SRGmMPDNrgdn](?:[']|\.)?)(?=[SRGmMPDNrgdn]) -> \1 followed by a space
RECURSIVE SpaceNotes(_, _)
SpaceNotes(s, i) ==
    IF i > Len(s) THEN <<>>
    ELSE IF s[i] \in NoteClass
         THEN IF /\ i + 2 <= Len(s)
                 /\ s[i + 1] \in {"'", "."}
                 /\ s[i + 2] \in NoteClass
              THEN <<s[i], s[i + 1], " ">> \o SpaceNotes(s, i + 2)
              ELSE IF i + 1 <= Len(s) /\ s[i + 1] \in NoteClass
              THEN <<s[i], " ">> \o SpaceNotes(s, i + 1)
              ELSE <<s[i]>> \o SpaceNotes(s, i + 1)
         ELSE <<s[i]>> \o SpaceNotes(s, i + 1)

\* the literal substitutions, in the order the code applies them
TivraPats ==
    <<Pat(<<"M", "a">>, TRUE, FALSE, {"T", "t"}, <<"M">>),
      Pat(<<"M", "a", "#">>, TRUE, TRUE, {}, <<"M">>),
      Pat(<<"M">>, FALSE, TRUE, {"T", "t"}, <<"M">>),
      Pat(<<"M", "#">>, FALSE, TRUE, {}, <<"M">>)>>

KomalWordPats ==
    <<Pat(<<"R", "e">>, TRUE, FALSE, {"k", "K"}, <<"r">>),
      Pat(<<"G", "a">>, TRUE, FALSE, {"k", "K"}, <<"g">>),
      Pat(<<"D", "h", "a">>, TRUE, FALSE, {"k", "K"}, <<"d">>),
      Pat(<<"N", "i">>, TRUE, FALSE, {"k", "K"}, <<"n">>)>>

replacements ==
    <<Pat(<<"D", "h", "a">>, TRUE, FALSE, {}, <<"D">>),
      Pat(<<"N", "i">>, TRUE, FALSE, {}, <<"N">>),
      Pat(<<"S", "a">>, TRUE, FALSE, {}, <<"S">>),
      Pat(<<"R", "e">>, TRUE, FALSE, {}, <<"R">>),
      Pat(<<"G", "a">>, TRUE, FALSE, {}, <<"G">>),
      Pat(<<"P", "a">>, TRUE, FALSE, {}, <<"P">>),
      Pat(<<"M", "a">>, TRUE, FALSE, {}, <<"m">>)>>

\* apply the substitutions of pats to s, one after the other
RECURSIVE PatSubAll(_, _)
PatSubAll(s, pats) ==
    IF pats = <<>> THEN s ELSE PatSubAll(PatSub(s, Head(pats)), Tail(pats))

_indian_words_to_letter_notation(indian_line) ==
    LET s0 == Strip(indian_line)
        s1 == Replace(s0, <<RSQUO>>, <<"'">>)
        s2 == SwapOctAccLetter(SwapOctAccWord(s1, 1), 1)
        s3 == PatSubAll(s2, TivraPats)
        s4 == PatSubAll(s3, KomalWordPats)
        s5 == KomalInlineAnywhere(s4, 1)
        s6 == PatSubAll(s5, replacements)
        s7 == SpaceNotes(s6, 1)
    IN  IF s0 = <<>> THEN <<>> ELSE Strip(CollapseWS(s7))

tokenize_from_indian(indian_line) ==
    LET toks == tokenize_fallback(indian_line)
    IN  IF toks # <<>> THEN toks
        ELSE tokenize_fallback(_indian_words_to_letter_notation(indian_line))

\* ------------------------------------------------------------------
\* Transliterator
\* ------------------------------------------------------------------
\* western_note_label: the label of one note, "" when it does not resolve
western_note_label(tok, include_octave, default_octave) ==
    LET pn == _parse_note_token(tok, default_octave)
    IN  IF pn = None THEN <<>>
        ELSE IF include_octave THEN pn.western_label
        ELSE <<pn.step>> \o Accidental(pn.alter)

\* seg of one token, its comma prefix and hold marker taken off: a kan,
\* a meend or a plain label
SegmentOf(t, include_octave, default_octave) ==
    LET k == KanClose(t)
        m == MeendSplit(t)
    IN  IF k # 0
        THEN <<"(">> \o western_note_label(SubSeq(t, 2, k - 1), include_octave, default_octave)
             \o <<")">> \o western_note_label(SubSeq(t, k + 1, Len(t)), include_octave, default_octave)
        ELSE IF m # 0
        THEN western_note_label(SubSeq(t, 1, m - 1), include_octave, default_octave)
             \o <<"~">> \o western_note_label(SubSeq(t, m + 1, Len(t)), include_octave, default_octave)
        ELSE western_note_label(t, include_octave, default_octave)

\* AppendSegment always prefixing the comma to the segment of its token
AppendSegmentPrefixed(out, seg, comma_prefix) ==
    IF comma_prefix THEN Append(out, <<",">> \o seg) ELSE Append(out, seg)

\* the end of the loop body: the comma of a token goes behind the previous
\* segment when there is one, in front of its own segment otherwise
AppendSegment(out, seg, comma_prefix) ==
    IF comma_prefix /\ out # <<>>
    THEN Append([out EXCEPT ![Len(out)] = RStrip(@) \o <<",">>], seg)
    ELSE IF comma_prefix THEN Append(out, <<",">> \o seg)
    ELSE Append(out, seg)

\* the body of the loop over the tokens up to its append: whether the
\* token is skipped, its segment with the hold marker put back, and
\* whether it had a comma prefix
TokenSegment(tok0, include_octave, default_octave) ==
    LET t0 == Strip(tok0)
        comma_prefix == StartsWith(t0, <<",">>)
        t1 == IF comma_prefix THEN DropFirst(t0) ELSE t0
        hold == EndsWith(t1, <<":">>)
        t2 == IF hold THEN DropLast(t1) ELSE t1
        seg0 == SegmentOf(t2, include_octave, default_octave)
    IN  [skip |-> t0 = <<>> \/ seg0 = <<>>,
         seg |-> IF hold THEN seg0 \o <<":">> ELSE seg0,
         comma_prefix |-> comma_prefix]

\* the loop over the tokens: out after the first n of them
RECURSIVE WesternOut(_, _)
WesternOut(items, n) ==
    IF n = 0 THEN <<>>
    ELSE IF items[n].skip THEN WesternOut(items, n - 1)
    ELSE AppendSegment(WesternOut(items, n - 1), items[n].seg, items[n].comma_prefix)

\* western_from_indian from its list of tokens on: "" when there is none,
\* else the segments joined by spaces
WesternOfTokens(toks, include_octave, default_octave) ==
    IF toks = <<>> THEN <<>>
    ELSE Strip(Join(WesternOut([i \in 1..Len(toks) |->
                                   TokenSegment(toks[i], include_octave, default_octave)],
                               Len(toks)),
                    <<" ">>))

western_from_indian(indian_line, include_octave, default_octave) ==
    WesternOfTokens(tokenize_from_indian(indian_line), include_octave, default_octave)

\* ------------------------------------------------------------------
\* State of a run
\* ------------------------------------------------------------------
VARIABLES
    beats,          \* parameter beats
    divisions,      \* parameter divisions
    default_octave, \* parameter default_octave
    songs,          \* parameter songs: the batch
    si,             \* index in songs of the song being compiled
    song,           \* the song record s: its lines, sections flattened
    pc,             \* position in the song loop, or in a single call
    li,             \* index of the line being compiled
    tokens,         \* tokens of the current line
    events,         \* events of the current line
    ei,             \* index of the next event of the current line
    xml,            \* the output: measures and notes, in order
    measure_no,
    current_units,
    slur_pending,
    files,          \* the outputs written so far, one per song of the batch
    indian_line,    \* argument of a call of the tokenizer or transliterator
    fragments,      \* the fragments indian_line is written from
    tok,            \* argument of a call of the resolver
    parsed,         \* value returned by the resolver
    include_octave, \* argument of a call of the transliterator
    western,        \* value returned by the transliterator
    disk,           \* the files of a project: path -> content
    args,           \* arguments of a run of a file utility
    ret             \* value returned by a run of a file utility

\* the arguments and results of single calls
callvars == <<indian_line, fragments, tok, parsed, include_octave, western>>

\* the batch and what has been written for it
batchvars == <<songs, si, files>>

\* the project files and a run of a utility on them
projvars == <<disk, args, ret>>

vars == <<_NOTATION, _TOKEN_TO_WESTERN, beats, divisions, default_octave,
          songs, si, song, pc, li, tokens, events, ei, xml, measure_no,
          current_units, slur_pending, files, indian_line, fragments, tok,
          parsed,
          include_octave, western, disk, args, ret>>

\* ------------------------------------------------------------------
\* make_musicxml_per_song: derived parameter
\* ------------------------------------------------------------------
notes_per_measure == beats * divisions

\* ------------------------------------------------------------------
\* Inputs
\* ------------------------------------------------------------------
Line(toks, indian) == [tokens |-> toks, indian |-> indian]

\* one token of each shape, a kan with a held main note, and a token whose
\* letter is not in the table
TokenVocab ==
    {<<"S">>, <<"G", ":">>, <<"G", "~", "R">>, <<"(", "R", ")", "G">>,
     <<"(", "R", ")", "G", ":">>, <<"X">>}

SeqsUpTo(S, n) == UNION {[1..k -> S] : k \in 0..n}

SeqsOf(S, k) == [1..k -> S]

\* songs of exactly k lines with stored tokens, at most n tokens in all
RECURSIVE SongsOf(_, _)
SongsOf(k, n) ==
    IF k = 0 THEN {<<>>}
    ELSE UNION {{<<Line(first, <<>>)>> \o rest : first \in SeqsOf(TokenVocab, j),
                                                rest \in SongsOf(k - 1, n - j)}
                : j \in 0..n}

GeneralSongs == UNION {SongsOf(k, MaxSongTokens) : k \in 1..MaxLines}

\* songs of one line of plain notes
PlainSongs == {<<Line([i \in 1..k |-> <<"S">>], <<>>)>> : k \in 1..MaxPlain}

\* songs of one line without stored tokens, holding one ornament written
\* over every pair of letters of the table
OrnamentLines ==
    UNION {{<<A, "~", B>>, <<"(", A, ")", B>>, <<"(", A, ")", B, ":">>, <<A, ":">>}
           : A \in BaseLetters, B \in BaseLetters}

OrnamentSongs == {<<Line(<<>>, l)>> : l \in OrnamentLines}

Songs == GeneralSongs \cup PlainSongs \cup OrnamentSongs

\* lines of free text for the tokenizer: every string over TokAlphabet of
\* at most MaxLineLen characters
TokAlphabet == {"S", "R", "a", " ", ":", "~"}

TokSongs == {<<Line(<<>>, l)>> : l \in SeqsUpTo(TokAlphabet, MaxLineLen)}

\* ------------------------------------------------------------------
\* make_musicxml_per_song: output items and local functions
\* ------------------------------------------------------------------
\* <measure number="n">, with the attributes block when first
MeasureOpen(n, first) == [kind |-> "measure", number |-> n, first |-> first]

\* </measure>
MeasureClose == [kind |-> "end_measure"]

duration_to_type(dur_units) ==
    IF dur_units <= 1 THEN "eighth"
    ELSE IF dur_units = 2 THEN "quarter"
    ELSE IF dur_units = 4 THEN "half"
    ELSE IF dur_units = 8 THEN "whole"
    ELSE "quarter"

\* the <note> element; a grace note has no <duration> (written 0 here) and
\* always the type eighth
emit_note(pn, duration, note_type, is_grace, slur) ==
    [kind |-> "note",
     grace |-> is_grace,
     step |-> pn.step,
     alter |-> pn.alter,
     octave |-> pn.octave,
     duration |-> IF is_grace THEN 0 ELSE duration,
     type |-> IF is_grace THEN "eighth" ELSE note_type,
     slur |-> slur,
     lyric1 |-> pn.indian_label]

\* EventDur without the doubling of a hold
EventDurPlain(ev) == DefaultNoteDuration

\* EventDur with a grace event counted as 0 units in the measure test
EventDurGraceZero(ev) ==
    IF ev = "hold" THEN DefaultNoteDuration * 2
    ELSE IF ev = "grace" THEN 0
    ELSE DefaultNoteDuration

\* duration of an event, in divisions units
EventDur(ev) == IF ev = "hold" THEN DefaultNoteDuration * 2 ELSE DefaultNoteDuration

\* Exceeds opening a new measure as soon as the note fills the measure
ExceedsOrFills(units, dur) == units + dur >= beats * divisions

\* the measure test in front of an emitted note
Exceeds(units, dur) == units + dur > notes_per_measure

\* Advance counting the grace note too
AdvanceAlways(units, dur, is_grace) == units + dur

\* current_units after an emitted note
Advance(units, dur, is_grace) == IF is_grace THEN units ELSE units + dur

\* ------------------------------------------------------------------
\* make_musicxml_per_song: the loop over one song
\* ------------------------------------------------------------------
\* the module globals as loaded in this repository, which has no
\* notation_mapping.json beside build_songbook.py
LoadedDefault ==
    /\ _NOTATION = _load_notation_mapping(AbsentFile)
    /\ _TOKEN_TO_WESTERN = TokenTable(_NOTATION)

\* the batch is the one song, nothing written yet
OneSongBatch ==
    /\ songs = <<song>>
    /\ si = 1
    /\ files = <<>>

\* no single call of the tokenizer, resolver or transliterator
NoCall ==
    /\ indian_line = <<>>
    /\ fragments = <<>>
    /\ tok = <<>>
    /\ parsed = None
    /\ include_octave = FALSE
    /\ western = <<>>

\* no utility is run on the project files
NoProject ==
    /\ disk = <<>>
    /\ args = <<>>
    /\ ret = None

Init ==
    /\ NoProject
    /\ beats \in 1..MaxBeats
    /\ divisions \in {1, DefaultDivisions}
    /\ song \in Songs
    /\ OneSongBatch
    /\ LoadedDefault
    /\ default_octave = DefaultOctave
    /\ NoCall
    /\ pc = "start"
    /\ li = 1
    /\ tokens = <<>>
    /\ events = <<>>
    /\ ei = 1
    /\ xml = <<>>
    /\ measure_no = 1
    /\ current_units = 0
    /\ slur_pending = "None"

\* FirstMeasure keeping the number the previous song of the batch ended on
FirstMeasureCarried(previous) == previous

\* measure_no = 1 at the head of the body of the loop over songs
FirstMeasure(previous) == 1

\* the head of the body of the loop over songs: a fresh xml list,
\* measure_no, current_units, start_measure(first=True)
StartSong ==
    /\ pc = "start"
    /\ measure_no' = FirstMeasure(measure_no)
    /\ xml' = <<MeasureOpen(measure_no', TRUE)>>
    /\ current_units' = 0
    /\ li' = 1
    /\ pc' = "lines"
    /\ UNCHANGED <<projvars, globals, default_octave, batchvars, callvars>>
    /\ UNCHANGED <<beats, divisions, song, tokens, events, ei, slur_pending>>

\* the head of the loop over lines: tokens, events, slur_pending
BeginLine ==
    /\ pc = "lines"
    /\ li <= Len(song)
    /\ LET stored == song[li].tokens
           toks == IF stored # <<>> THEN stored
                   ELSE tokenize_from_indian(song[li].indian)
       IN  /\ tokens' = toks
           /\ events' = _expand_tokens_to_events(toks)
    /\ ei' = 1
    /\ slur_pending' = "None"
    /\ pc' = "events"
    /\ UNCHANGED <<projvars, globals, default_octave, batchvars, callvars>>
    /\ UNCHANGED <<beats, divisions, song, li, xml, measure_no, current_units>>

AtEvent == pc = "events" /\ ei <= Len(events)

SlurStart ==
    /\ AtEvent
    /\ events[ei].ev = "slur_start"
    /\ slur_pending' = "start"
    /\ ei' = ei + 1
    /\ UNCHANGED <<projvars, globals, default_octave, batchvars, callvars>>
    /\ UNCHANGED <<beats, divisions, song, pc, li, tokens, events, xml,
                   measure_no, current_units>>

SlurStop ==
    /\ AtEvent
    /\ events[ei].ev = "slur_stop"
    /\ slur_pending' = "stop"
    /\ ei' = ei + 1
    /\ UNCHANGED <<projvars, globals, default_octave, batchvars, callvars>>
    /\ UNCHANGED <<beats, divisions, song, pc, li, tokens, events, xml,
                   measure_no, current_units>>

\* SkipUnresolved falling through to the reset of slur_pending
SkipUnresolvedResetsSlur ==
    /\ pc = "events"
    /\ ei <= Len(events)
    /\ events[ei].ev \in {"note", "hold", "grace"}
    /\ _parse_note_token(events[ei].payload, default_octave) = None
    /\ ei' = ei + 1
    /\ slur_pending' = "None"
    /\ UNCHANGED <<projvars, globals, default_octave, batchvars, callvars>>
    /\ UNCHANGED <<beats, divisions, song, pc, li, tokens, events, xml,
                   measure_no, current_units>>

\* a note, hold or grace event whose payload does not resolve: continue
SkipUnresolved ==
    /\ AtEvent
    /\ events[ei].ev \in {"note", "hold", "grace"}
    /\ _parse_note_token(events[ei].payload, default_octave) = None
    /\ ei' = ei + 1
    /\ UNCHANGED <<projvars, globals, default_octave, batchvars, callvars>>
    /\ UNCHANGED <<beats, divisions, song, pc, li, tokens, events, xml,
                   measure_no, current_units, slur_pending>>

\* a note, hold or grace event that resolves
EmitNote ==
    /\ AtEvent
    /\ events[ei].ev \in {"note", "hold", "grace"}
    /\ LET ev == events[ei].ev
           dur == EventDur(ev)
           pn == _parse_note_token(events[ei].payload, default_octave)
           is_grace == ev = "grace"
           newMeasure == Exceeds(current_units, dur)
           start == IF newMeasure THEN 0 ELSE current_units
           opened == IF newMeasure
                     THEN xml \o <<MeasureClose, MeasureOpen(measure_no + 1, FALSE)>>
                     ELSE xml
       IN  /\ pn # None
           /\ measure_no' = IF newMeasure THEN measure_no + 1 ELSE measure_no
           /\ xml' = Append(opened, emit_note(pn, dur, duration_to_type(dur),
                                              is_grace, slur_pending))
           /\ current_units' = Advance(start, dur, is_grace)
    /\ slur_pending' = "None"
    /\ ei' = ei + 1
    /\ UNCHANGED <<projvars, globals, default_octave, batchvars, callvars>>
    /\ UNCHANGED <<beats, divisions, song, pc, li, tokens, events>>

\* the events of the line are exhausted: next line
EndLine ==
    /\ pc = "events"
    /\ ei > Len(events)
    /\ li' = li + 1
    /\ pc' = "lines"
    /\ UNCHANGED <<projvars, globals, default_octave, batchvars, callvars>>
    /\ UNCHANGED <<beats, divisions, song, tokens, events, ei, xml, measure_no,
                   current_units, slur_pending>>

\* the lines of the song are exhausted: end_measure(), and the file of
\* the song is written
EndSong ==
    /\ pc = "lines"
    /\ li > Len(song)
    /\ xml' = Append(xml, MeasureClose)
    /\ files' = Append(files, xml')
    /\ pc' = "done"
    /\ UNCHANGED <<projvars, globals, default_octave, songs, si, callvars>>
    /\ UNCHANGED <<beats, divisions, song, li, tokens, events, ei, measure_no,
                   current_units, slur_pending>>

Next ==
    \/ StartSong
    \/ BeginLine
    \/ SlurStart
    \/ SlurStop
    \/ SkipUnresolved
    \/ EmitNote
    \/ EndLine
    \/ EndSong

Spec == Init /\ [][Next]_vars

\* the same loop over songs of one free-text line, default parameters
TokInit ==
    /\ NoProject
    /\ beats = DefaultBeats
    /\ divisions = DefaultDivisions
    /\ song \in TokSongs
    /\ OneSongBatch
    /\ LoadedDefault
    /\ default_octave = DefaultOctave
    /\ NoCall
    /\ pc = "start"
    /\ li = 1
    /\ tokens = <<>>
    /\ events = <<>>
    /\ ei = 1
    /\ xml = <<>>
    /\ measure_no = 1
    /\ current_units = 0
    /\ slur_pending = "None"

TokSpec == TokInit /\ [][Next]_vars

\* ------------------------------------------------------------------
\* make_musicxml_per_song: the loop over the songs of a batch
\* ------------------------------------------------------------------
\* for s in songs: the next song; the locals of the previous iteration
\* stay as they are until the body assigns them
NextSong ==
    /\ pc = "done"
    /\ si < Len(songs)
    /\ si' = si + 1
    /\ song' = songs[si + 1]
    /\ pc' = "start"
    /\ UNCHANGED <<projvars, globals, beats, divisions, default_octave, songs, files,
                   li, tokens, events, ei, xml, measure_no, current_units,
                   slur_pending, callvars>>

\* songs that end with one note in the measure, on a pending slur stop,
\* past the first measure, after a line of text, and after a second line
BatchSongs ==
    {<<Line(<<<<"S">>>>, <<>>)>>,
     <<Line(<<<<"G", ":">>, <<"G", "~", "R">>>>, <<>>)>>,
     <<Line(<<<<"(", "R", ")", "G">>, <<"S">>, <<"S">>>>, <<>>)>>,
     <<Line(<<>>, <<"S", " ", "R">>)>>,
     <<Line(<<<<"X">>>>, <<>>), Line(<<<<"S">>, <<"G", ":">>>>, <<>>)>>}

BatchInit ==
    /\ NoProject
    /\ LoadedDefault
    /\ beats \in {1, DefaultBeats}
    /\ divisions = DefaultDivisions
    /\ default_octave = DefaultOctave
    /\ songs \in SeqsUpTo(BatchSongs, MaxBatch) \ {<<>>}
    /\ si = 1
    /\ song = songs[1]
    /\ files = <<>>
    /\ NoCall
    /\ pc = "start"
    /\ li = 1
    /\ tokens = <<>>
    /\ events = <<>>
    /\ ei = 1
    /\ xml = <<>>
    /\ measure_no = 1
    /\ current_units = 0
    /\ slur_pending = "None"

BatchNext == Next \/ NextSong

BatchSpec == BatchInit /\ [][BatchNext]_vars

\* ------------------------------------------------------------------
\* Single calls of the tokenizer
\* ------------------------------------------------------------------
\* no song is being compiled: the parameters and locals of
\* make_musicxml_per_song at rest
NoCompile ==
    /\ beats = DefaultBeats
    /\ divisions = DefaultDivisions
    /\ default_octave = DefaultOctave
    /\ song = <<>>
    /\ songs = <<>>
    /\ si = 1
    /\ files = <<>>
    /\ li = 1
    /\ events = <<>>
    /\ ei = 1
    /\ xml = <<>>
    /\ measure_no = 1
    /\ current_units = 0
    /\ slur_pending = "None"

\* the frame of a single call
compilevars == <<beats, divisions, default_octave, song, songs, si, files, li,
                 events, ei, xml, measure_no, current_units, slur_pending>>

\* tokens = tokenize_from_indian(indian_line)
Tokenize ==
    /\ pc = "call"
    /\ tokens' = tokenize_from_indian(indian_line)
    /\ pc' = "returned"
    /\ UNCHANGED <<projvars, globals, compilevars, callvars>>

\* the word-style swaras: the seven words and the four komal forms
SwaraWordForms ==
    {<<"S", "a">>, <<"R", "e">>, <<"G", "a">>, <<"M", "a">>, <<"P", "a">>,
     <<"D", "h", "a">>, <<"N", "i">>,
     <<"R", "e", "(", "k", ")">>, <<"G", "a", "(", "k", ")">>,
     <<"D", "h", "a", "(", "k", ")">>, <<"N", "i", "(", "k", ")">>}

\* a line of word-style swaras, whitespace-separated or concatenated
WordInit ==
    /\ NoProject
    /\ LoadedDefault
    /\ NoCompile
    /\ fragments \in SeqsUpTo(SwaraWordForms, MaxWords) \ {<<>>}
    /\ indian_line \in {Join(fragments, <<" ">>), Join(fragments, <<>>)}
    /\ tok = <<>>
    /\ parsed = None
    /\ include_octave = FALSE
    /\ western = <<>>
    /\ tokens = <<>>
    /\ pc = "call"

WordSpec == WordInit /\ [][Tokenize]_vars

\* fragments of either style: two letters, two words, a komal form
MixedForms ==
    {<<"S">>, <<"G">>, <<"R", "e">>, <<"M", "a">>, <<"D", "h", "a", "(", "k", ")">>}

\* a line of space-separated fragments of either style
MixedInit ==
    /\ NoProject
    /\ LoadedDefault
    /\ NoCompile
    /\ fragments \in SeqsUpTo(MixedForms, MaxWords) \ {<<>>}
    /\ indian_line = Join(fragments, <<" ">>)
    /\ tok = <<>>
    /\ parsed = None
    /\ include_octave = FALSE
    /\ western = <<>>
    /\ tokens = <<>>
    /\ pc = "call"

MixedSpec == MixedInit /\ [][Tokenize]_vars

\* tokens = tokenize_from_indian(" ".join(tokens)): the tokens of a line
\* written back as a line and tokenized again
Retokenize ==
    /\ pc = "returned"
    /\ tokens' = tokenize_from_indian(Join(tokens, <<" ">>))
    /\ pc' = "again"
    /\ UNCHANGED <<projvars, globals, compilevars, callvars>>

\* the characters of the octave and hold markers around one letter
MarkAlphabet == {"S", ",", "'", ".", ":", " "}

\* the characters of the ornaments and of the inline komal
OrnamentAlphabet == {"R", "(", ")", "k", "~", "-"}

\* canonical letter-style tokens: a plain note with optional low comma,
\* octave suffix and hold marker; a meend; a kan
CanonicalTokens ==
    UNION {{<<b>> \o o \o h : o \in {<<>>, <<"'">>, <<".">>},
                               h \in {<<>>, <<":">>}} : b \in {"S", "r"}}
    \cup {<<",", "S">>, <<",", "S", ":">>,
          <<"G", "~", "R">>, <<"r", "~", "S">>,
          <<"(", "R", ")", "G">>, <<"(", "S", ")", "r", "'">>}

\* a line of free text over one of the two alphabets, or a line of
\* space-separated canonical tokens
CanonInit ==
    /\ NoProject
    /\ LoadedDefault
    /\ NoCompile
    /\ \/ /\ fragments = <<>>
          /\ indian_line \in SeqsUpTo(MarkAlphabet, MaxLineLen)
                               \cup SeqsUpTo(OrnamentAlphabet, MaxOrnamentLen)
       \/ /\ fragments \in SeqsUpTo(CanonicalTokens, MaxSongTokens) \ {<<>>}
          /\ indian_line = Join(fragments, <<" ">>)
    /\ tok = <<>>
    /\ parsed = None
    /\ include_octave = FALSE
    /\ western = <<>>
    /\ tokens = <<>>
    /\ pc = "call"

CanonNext == Tokenize \/ Retokenize

CanonSpec == CanonInit /\ [][CanonNext]_vars

\* ------------------------------------------------------------------
\* Single calls of the resolver
\* ------------------------------------------------------------------
\* parsed = _parse_note_token(tok, default_octave)
Resolve ==
    /\ pc = "call"
    /\ parsed' = _parse_note_token(tok, default_octave)
    /\ pc' = "returned"
    /\ UNCHANGED <<projvars, globals, beats, divisions, default_octave, song, songs, si,
                   files, li, tokens, events, ei, xml, measure_no,
                   current_units, slur_pending>>
    /\ UNCHANGED <<indian_line, fragments, tok, include_octave, western>>

\* one letter, of the table or not, with or without a low comma in front
\* and an octave mark behind
MarkedTokens ==
    {c \o <<b>> \o o : c \in {<<>>, <<",">>},
                       b \in BaseLetters \cup {"X"},
                       o \in {<<>>, <<"'">>, <<".">>, <<RSQUO>>}}

ResolveInit ==
    /\ NoProject
    /\ LoadedDefault
    /\ beats = DefaultBeats
    /\ divisions = DefaultDivisions
    /\ default_octave \in 0..MaxOctave
    /\ song = <<>>
    /\ songs = <<>>
    /\ si = 1
    /\ files = <<>>
    /\ li = 1
    /\ tokens = <<>>
    /\ events = <<>>
    /\ ei = 1
    /\ xml = <<>>
    /\ measure_no = 1
    /\ current_units = 0
    /\ slur_pending = "None"
    /\ indian_line = <<>>
    /\ fragments = <<>>
    /\ tok \in MarkedTokens
    /\ parsed = None
    /\ include_octave = FALSE
    /\ western = <<>>
    /\ pc = "call"

ResolveSpec == ResolveInit /\ [][Resolve]_vars

\* the keys of the mapping besides token_to_western
OtherKeys == DOMAIN _default_notation_mapping \ {"token_to_western"}

\* the built-in table without at most MaxAbsent of its letters
PartialTables ==
    {Restrict(TOKEN_TO_WESTERN, BaseLetters \ A) :
        A \in {B \in SUBSET BaseLetters : Cardinality(B) <= MaxAbsent}}

\* JSON objects holding some of the keys of the mapping, the table itself
\* holding all or nearly all of its letters
JsonObjects ==
    {Restrict(_default_notation_mapping, K) : K \in SUBSET OtherKeys}
    \cup {[k \in K \cup {"token_to_western"} |->
              IF k = "token_to_western" THEN t ELSE _default_notation_mapping[k]]
          : K \in SUBSET OtherKeys, t \in PartialTables}

MappingFiles ==
    {AbsentFile, UnreadableFile} \cup {JsonFile(obj) : obj \in JsonObjects}

\* the module loaded beside any mapping file, and a call of the resolver
\* on a letter of the built-in table
LoadInit ==
    /\ NoProject
    /\ \E file \in MappingFiles : _NOTATION = _load_notation_mapping(file)
    /\ _TOKEN_TO_WESTERN = TokenTable(_NOTATION)
    /\ NoCompile
    /\ indian_line = <<>>
    /\ fragments = <<>>
    /\ tok \in {<<b>> : b \in BaseLetters}
    /\ parsed = None
    /\ include_octave = FALSE
    /\ western = <<>>
    /\ tokens = <<>>
    /\ pc = "call"

LoadSpec == LoadInit /\ [][Resolve]_vars

\* ------------------------------------------------------------------
\* Single calls of the transliterator
\* ------------------------------------------------------------------
\* western = western_from_indian(indian_line, include_octave, default_octave),
\* tokens being its local list of tokens
Transliterate ==
    /\ pc = "call"
    /\ tokens' = tokenize_from_indian(indian_line)
    /\ western' = WesternOfTokens(tokens', include_octave, default_octave)
    /\ pc' = "returned"
    /\ UNCHANGED <<projvars, globals, compilevars>>
    /\ UNCHANGED <<indian_line, fragments, tok, parsed, include_octave>>

\* fragments of a line: plain notes with and without the low comma, the
\* octave suffix and the hold marker, a meend, a kan, a fragment that is
\* not a note, and two notes whose doubled hold marker does not resolve
WesternForms ==
    {<<"S">>, <<",", "R">>, <<"g", "'">>, <<"G", ":">>, <<",", "m", ":">>,
     <<"G", "~", "R">>, <<"(", "R", ")", "G">>, <<"a">>,
     <<"S", ":", ":">>, <<",", "P", ":", ":">>}

WesternInit ==
    /\ NoProject
    /\ LoadedDefault
    /\ NoCompile
    /\ fragments \in SeqsUpTo(WesternForms, MaxWords) \ {<<>>}
    /\ indian_line = Join(fragments, <<" ">>)
    /\ tok = <<>>
    /\ parsed = None
    /\ include_octave \in BOOLEAN
    /\ western = <<>>
    /\ tokens = <<>>
    /\ pc = "call"

WesternSpec == WesternInit /\ [][Transliterate]_vars

\* a line of one base letter of the table, with or without an octave
\* suffix, at any default octave
LabelInit ==
    /\ NoProject
    /\ LoadedDefault
    /\ beats = DefaultBeats
    /\ divisions = DefaultDivisions
    /\ default_octave \in 0..MaxOctave
    /\ song = <<>>
    /\ songs = <<>>
    /\ si = 1
    /\ files = <<>>
    /\ li = 1
    /\ events = <<>>
    /\ ei = 1
    /\ xml = <<>>
    /\ measure_no = 1
    /\ current_units = 0
    /\ slur_pending = "None"
    /\ \E b \in DOMAIN _TOKEN_TO_WESTERN, o \in {<<>>, <<"'">>, <<".">>} :
          /\ fragments = <<<<b>>>>
          /\ indian_line = <<b>> \o o
    /\ tok = <<>>
    /\ parsed = None
    /\ include_octave \in BOOLEAN
    /\ western = <<>>
    /\ tokens = <<>>
    /\ pc = "call"

LabelSpec == LabelInit /\ [][Transliterate]_vars

\* ------------------------------------------------------------------
\* Vocabulary of the properties
\* ------------------------------------------------------------------
IsNote(e) == e.kind = "note"

Notes(x) == SelectSeq(x, IsNote)

\* indices of the notes of x, in order
NoteIdx(x) == SelectSeq([i \in 1..Len(x) |-> i], LAMBDA i : x[i].kind = "note")

\* index of the <measure> that contains item i of x
OpenBefore(x, i) ==
    CHOOSE j \in 1..i :
        /\ x[j].kind = "measure"
        /\ \A k \in (j + 1)..i : x[k].kind # "measure"

\* number of the measure that contains item i of x
MeasureOf(x, i) == x[OpenBefore(x, i)].number

\* sum of the durations of the notes among x[a..b]
RECURSIVE SumDur(_, _, _)
SumDur(x, a, b) ==
    IF a > b THEN 0
    ELSE (IF x[a].kind = "note" THEN x[a].duration ELSE 0) + SumDur(x, a + 1, b)

\* what a note shows of its event: grace flag, label, duration
Brief(n) == <<n.grace, n.lyric1, n.duration>>

Briefs(x) == [i \in 1..Len(Notes(x)) |-> Brief(Notes(x)[i])]

Slurs(x) == [i \in 1..Len(Notes(x)) |-> Notes(x)[i].slur]

\* the line of the song has been tokenized and expanded
AfterBegin == pc \in {"events", "done"} \/ (pc = "lines" /\ li > 1)

\* a song of one line without stored tokens
OneTextLine == Len(song) = 1 /\ song[1].tokens = <<>>

\* a song of one line with one stored token
OneStoredToken == Len(song) = 1 /\ Len(song[1].tokens) = 1

Capacity == beats * divisions

\* ------------------------------------------------------------------
\* C1: at every point of compiling a song the unit counter of the current
\* measure never exceeds beats * divisions, and the durations of the notes
\* of the measure being filled sum to at most that capacity.
\* ------------------------------------------------------------------
C1_UnitsWithinCapacity ==
    /\ current_units <= Capacity
    /\ xml # <<>> /\ pc # "done" =>
          SumDur(xml, OpenBefore(xml, Len(xml)), Len(xml)) <= Capacity

\* ------------------------------------------------------------------
\* C2: for base letters A and B, the line "A~B" tokenizes to the single
\* token "A~B", which expands to note(A), slur_start, note(B), slur_stop in
\* this order; the two notes are emitted with duration 1 each.
\* ------------------------------------------------------------------
MeendSong ==
    /\ OneTextLine
    /\ Len(song[1].indian) = 3
    /\ song[1].indian[1] \in BaseLetters
    /\ song[1].indian[2] = "~"
    /\ song[1].indian[3] \in BaseLetters

C2_MeendFourEvents ==
    MeendSong =>
        LET A == song[1].indian[1]
            B == song[1].indian[3]
        IN  /\ AfterBegin =>
                /\ tokens = <<song[1].indian>>
                /\ events = <<[ev |-> "note", payload |-> <<A>>],
                              [ev |-> "slur_start", payload |-> <<>>],
                              [ev |-> "note", payload |-> <<B>>],
                              [ev |-> "slur_stop", payload |-> <<>>]>>
            /\ pc = "done" => Briefs(xml) = <<<<FALSE, <<A>>, 1>>, <<FALSE, <<B>>, 1>>>>

C2_Witness == MeendSong /\ pc = "done" /\ Len(Notes(xml)) = 2

\* ------------------------------------------------------------------
\* C3: for base letters A and B, the line "(A)B" tokenizes to the single
\* token "(A)B", which compiles to grace(A) immediately followed by
\* note(B); the grace consumes no duration, so the measure position has
\* advanced by exactly 1 unit after the token. In every output a grace
\* note has no duration and the item after it is its main note, the two
\* together counting 1 unit.
\* ------------------------------------------------------------------
KanSong ==
    /\ OneTextLine
    /\ Len(song[1].indian) = 4
    /\ song[1].indian[1] = "("
    /\ song[1].indian[2] \in BaseLetters
    /\ song[1].indian[3] = ")"
    /\ song[1].indian[4] \in BaseLetters

C3_KanGraceThenNote ==
    /\ \A i \in 1..Len(xml) :
          xml[i].kind = "note" /\ xml[i].grace =>
             /\ xml[i].duration = 0
             /\ i < Len(xml) =>
                   /\ xml[i + 1].kind = "note"
                   /\ ~xml[i + 1].grace
                   /\ SumDur(xml, i, i + 1) = 1
    /\ KanSong =>
        LET A == song[1].indian[2]
            B == song[1].indian[4]
        IN  /\ AfterBegin =>
                /\ tokens = <<song[1].indian>>
                /\ events = <<[ev |-> "grace", payload |-> <<A>>],
                              [ev |-> "note", payload |-> <<B>>]>>
            /\ pc = "done" =>
                /\ Len(xml) = 4
                /\ Brief(xml[2]) = <<TRUE, <<A>>, 0>>
                /\ Brief(xml[3]) = <<FALSE, <<B>>, 1>>
                /\ current_units = 1
                /\ measure_no = 1

C3_Witness == KanSong /\ pc = "done" /\ Len(Notes(xml)) = 2 /\ Notes(xml)[1].grace

\* ------------------------------------------------------------------
\* C4: for a base letter X, the line "X:" tokenizes to the single token
\* "X:", which compiles to exactly one hold(X) event, emitted as one note of
\* duration 2, twice the duration of a plain note.
\* ------------------------------------------------------------------
HoldSong ==
    /\ OneTextLine
    /\ Len(song[1].indian) = 2
    /\ song[1].indian[1] \in BaseLetters
    /\ song[1].indian[2] = ":"

C4_HoldDoubleDuration ==
    HoldSong =>
        LET X == song[1].indian[1]
        IN  /\ AfterBegin =>
                /\ tokens = <<song[1].indian>>
                /\ events = <<[ev |-> "hold", payload |-> <<X>>]>>
            /\ pc = "done" =>
                /\ Briefs(xml) = <<<<FALSE, <<X>>, 2>>>>
                /\ Notes(xml)[1].duration = 2 * DefaultNoteDuration

C4_Witness == HoldSong /\ pc = "done" /\ Len(Notes(xml)) = 1

\* ------------------------------------------------------------------
\* C5: compiling the kan token with a held main note, "(A)B:", yields
\* grace(A) followed by hold(B): a grace note without duration, then the
\* main note with duration 2.
\* ------------------------------------------------------------------
KanHoldSong ==
    /\ OneStoredToken
    /\ song[1].tokens[1] = <<"(", "R", ")", "G", ":">>

C5_KanHoldGraceThenHold ==
    KanHoldSong /\ pc = "done" =>
        Briefs(xml) = <<<<TRUE, <<"R">>, 0>>, <<FALSE, <<"G">>, 2>>>>

\* ------------------------------------------------------------------
\* C6: a grace event never triggers the measure-capacity check: whatever
\* the measure position, emitting a grace note neither closes the current
\* measure nor opens a new one.
\* ------------------------------------------------------------------
GraceStep ==
    /\ AtEvent
    /\ events[ei].ev = "grace"
    /\ ei' = ei + 1
    /\ xml' # xml

C6_GraceNeverOpensMeasure ==
    [][GraceStep => measure_no' = measure_no /\ Len(xml') = Len(xml) + 1]_vars

\* C6 as amended: a grace event goes through the capacity check with the
\* duration of a plain note. It closes the current measure and opens the
\* next one exactly when the current measure is full (position + 1 exceeds
\* the capacity), and it never advances the position.
C6_GraceChecksCapacity ==
    [][GraceStep =>
          IF current_units + DefaultNoteDuration > Capacity
          THEN /\ measure_no' = measure_no + 1
               /\ Len(xml') = Len(xml) + 3
               /\ current_units' = 0
          ELSE /\ measure_no' = measure_no
               /\ Len(xml') = Len(xml) + 1
               /\ current_units' = current_units]_vars

\* a grace note is the first note of a measure opened for it
C6_Witness ==
    \E i \in 1..(Len(xml) - 1) :
        /\ xml[i].kind = "measure"
        /\ ~xml[i].first
        /\ xml[i + 1].kind = "note"
        /\ xml[i + 1].grace

\* ------------------------------------------------------------------
\* C7: measures are filled greedily. A duration-consuming note is the
\* first item of a newly opened measure exactly when it did not fit in the
\* measure before it; and in a song of plain notes only, the k-th note is
\* in measure ceil(k / capacity).
\* ------------------------------------------------------------------
\* units already in the measure a note at index i was offered to
UnitsOffered(x, i) ==
    IF x[i - 1].kind = "measure" /\ ~x[i - 1].first
    THEN SumDur(x, OpenBefore(x, i - 2), i - 2)
    ELSE SumDur(x, OpenBefore(x, i - 1), i - 1)

\* every line of the song is a stored sequence of plain resolvable notes
AllPlain ==
    \A l \in 1..Len(song) :
        /\ song[l].indian = <<>>
        /\ \A t \in 1..Len(song[l].tokens) : song[l].tokens[t] = <<"S">>

C7_GreedyMeasures ==
    /\ \A i \in 2..Len(xml) :
          xml[i].kind = "note" /\ ~xml[i].grace =>
             ((xml[i - 1].kind = "measure" /\ ~xml[i - 1].first)
                <=> UnitsOffered(xml, i) + xml[i].duration > Capacity)
    /\ AllPlain =>
          \A k \in 1..Len(NoteIdx(xml)) :
             MeasureOf(xml, NoteIdx(xml)[k]) = (k + Capacity - 1) \div Capacity

\* nine plain notes in measures of 8 units: the ninth opens measure 2
C7_Witness ==
    /\ AllPlain
    /\ Capacity = 8
    /\ pc = "done"
    /\ Len(NoteIdx(xml)) = 9
    /\ MeasureOf(xml, NoteIdx(xml)[8]) = 1
    /\ xml[NoteIdx(xml)[9] - 1] = MeasureOpen(2, FALSE)

\* ------------------------------------------------------------------
\* C8: a token whose base letter is not in token_to_western resolves to
\* none, and the compiler passes over it: no note, no duration, no measure
\* closed or opened, the pending slur untouched, so that the other tokens
\* compile as if it were not there.
\* ------------------------------------------------------------------
UnresolvedStep ==
    /\ AtEvent
    /\ events[ei].ev \in {"note", "hold", "grace"}
    /\ Len(events[ei].payload) = 1
    /\ events[ei].payload[1] \notin DOMAIN TOKEN_TO_WESTERN
    /\ ei' = ei + 1

C8_UnknownTokenSkipped ==
    [][UnresolvedStep =>
          /\ _parse_note_token(events[ei].payload, default_octave) = None
          /\ UNCHANGED <<xml, measure_no, current_units, slur_pending>>]_vars

\* an unknown token was passed over while a slur was pending, and notes
\* were emitted around it
C8_Witness ==
    /\ pc = "events"
    /\ ei > 1
    /\ events[ei - 1].payload = <<"X">>
    /\ slur_pending = "stop"
    /\ Len(Notes(xml)) >= 2

\* ------------------------------------------------------------------
\* C9: in the output of a song the slur annotations bracket the two notes
\* of each meend A~B: start on the note of A, stop on the note of B; every
\* slur start is followed at once by its stop, and no note outside a meend
\* carries a slur annotation.
\* ------------------------------------------------------------------
C9_SlurBracketsMeend ==
    pc = "done" =>
        /\ \A i \in 1..Len(Notes(xml)) :
              /\ Notes(xml)[i].slur = "start" =>
                    i < Len(Notes(xml)) /\ Notes(xml)[i + 1].slur = "stop"
              /\ Notes(xml)[i].slur = "stop" =>
                    i > 1 /\ Notes(xml)[i - 1].slur = "start"
        /\ MeendSong => Slurs(xml) = <<"start", "stop">>

\* ------------------------------------------------------------------
\* C10: tokenizing keeps what it recognizes: a fragment that matches none
\* of the patterns is dropped, the fragments of the line yield at most one
\* token each, and the tokens of the line are those of its fragments in
\* their left-to-right order.
\* ------------------------------------------------------------------
\* the text the tokens of the line come from: the line itself, or its
\* word-to-letter conversion when the line itself yields nothing
TokenSource(l) ==
    IF tokenize_fallback(l) # <<>> THEN l ELSE _indian_words_to_letter_notation(l)

SpaceCuts(l) == {k \in 1..Len(l) : l[k] = " "}

C10_FragmentsKeepOrder ==
    OneTextLine /\ pc = "events" /\ ei = 1 =>
        LET src == TokenSource(song[1].indian)
        IN  /\ tokens = tokenize_fallback(src)
            /\ \A k \in SpaceCuts(src) :
                  tokenize_fallback(src) =
                     tokenize_fallback(SubSeq(src, 1, k - 1))
                        \o tokenize_fallback(SubSeq(src, k + 1, Len(src)))
            /\ SpaceCuts(src) = {} => Len(tokens) <= 1

\* an unrecognized fragment between two recognized ones is dropped
C10_Witness ==
    /\ OneTextLine
    /\ pc = "events"
    /\ song[1].indian = <<"S", " ", "a", " ", "R">>
    /\ tokens = <<<<"S">>, <<"R">>>>

\* ------------------------------------------------------------------
\* C11: a line of word-style swaras, separated by whitespace or
\* concatenated, tokenizes to one token per word, in the order of the
\* words, each the letter of its word: Sa S, Re R, Ga G, Ma m, Pa P, Dha D,
\* Ni N, and r, g, d, n for the komal forms.
\* ------------------------------------------------------------------
\* the letter of a word: lower case for a komal form and for Ma
WordLetter(w) ==
    LET first == w[1]
    IN  IF Len(w) > 3 /\ w[Len(w)] = ")" THEN <<Lower(first)>>
        ELSE IF first = "M" THEN <<"m">>
        ELSE <<first>>

C11_OneTokenPerWord ==
    pc = "returned" =>
        tokens = [i \in 1..Len(fragments) |-> WordLetter(fragments[i])]

\* "DhaRe(k)Ma": three concatenated words, a komal form among them
C11_Witness ==
    /\ pc = "returned"
    /\ indian_line = <<"D", "h", "a", "R", "e", "(", "k", ")", "M", "a">>
    /\ tokens = <<<<"D">>, <<"r">>, <<"m">>>>

\* ------------------------------------------------------------------
\* C12: a line that mixes letter-style and word-style fragments yields a
\* token for every recognizable note of either style, in line order.
\* ------------------------------------------------------------------
\* the token a fragment stands for: the letter itself, or the letter of
\* the word
NoteOfFragment(f) == IF Len(f) = 1 THEN f ELSE WordLetter(f)

C12_MixedStylesAllTokenized ==
    pc = "returned" =>
        tokens = [i \in 1..Len(fragments) |-> NoteOfFragment(fragments[i])]

\* ------------------------------------------------------------------
\* C13: tokenizing is idempotent: the tokens of any line, joined by single
\* spaces and tokenized again, are the same tokens; and a line of
\* space-separated canonical letter-style tokens is returned unchanged.
\* ------------------------------------------------------------------
C13_TokenizeIdempotent ==
    [][/\ Retokenize => tokens' = tokens
       /\ Tokenize /\ fragments # <<>> => tokens' = fragments]_vars

\* ",S.:" is normalized by the first call and kept by the second
C13_Witness ==
    /\ pc = "again"
    /\ indian_line = <<",", "S", ".", ".", ".">>
    /\ tokens = <<<<",", "S", ":">>>>

\* ------------------------------------------------------------------
\* C14: for a base letter of the table and any default octave, the
\* resolved octave is default_octave + 1 for a token with the high marker,
\* default_octave - 1 for a token with a low marker (dot suffix or comma
\* prefix) and default_octave for a token with neither; step and alter
\* are those of the table entry.
\* ------------------------------------------------------------------
HasHighMarker(t) == t[Len(t)] \in {"'", RSQUO}

HasLowMarker(t) == t[1] = "," \/ t[Len(t)] = "."

\* the letter of a marked token
BaseOf(t) == IF t[1] = "," THEN t[2] ELSE t[1]

Resolved == pc = "returned" /\ tok # <<>> /\ BaseOf(tok) \in DOMAIN _TOKEN_TO_WESTERN

C14_OctaveArithmetic ==
    Resolved /\ ~(HasHighMarker(tok) /\ HasLowMarker(tok)) =>
        /\ parsed # None
        /\ parsed.step = _TOKEN_TO_WESTERN[BaseOf(tok)].step
        /\ parsed.alter = _TOKEN_TO_WESTERN[BaseOf(tok)].alter
        /\ HasHighMarker(tok) => parsed.octave = default_octave + 1
        /\ HasLowMarker(tok) => parsed.octave = default_octave - 1
        /\ ~HasHighMarker(tok) /\ ~HasLowMarker(tok) =>
              parsed.octave = default_octave

\* the komal Re with a low comma in front, resolved one octave down
C14_Witness ==
    /\ pc = "returned"
    /\ tok = <<",", "r">>
    /\ default_octave = 3
    /\ parsed # None
    /\ parsed.step = "D"
    /\ parsed.alter = -1
    /\ parsed.octave = 2

\* ------------------------------------------------------------------
\* C15: a token with both a low marker and the high marker resolves with
\* low taking precedence: octave default_octave - 1.
\* ------------------------------------------------------------------
C15_LowTakesPrecedence ==
    Resolved /\ HasHighMarker(tok) /\ HasLowMarker(tok) =>
        parsed # None /\ parsed.octave = default_octave - 1

\* ------------------------------------------------------------------
\* C16: no token returned by the tokenizer carries both a low-octave
\* marker (comma prefix or dot suffix) and a high-octave marker
\* (apostrophe).
\* ------------------------------------------------------------------
CarriesLow(t) == t[1] = "," \/ Contains(t, <<".">>)

CarriesHigh(t) == Contains(t, <<"'">>)

C16_MarkersExclusive ==
    pc = "returned" =>
        \A i \in 1..Len(tokens) : ~(CarriesLow(tokens[i]) /\ CarriesHigh(tokens[i]))

\* ------------------------------------------------------------------
\* C17: in the transliteration, the low comma of a token is appended to
\* the previously rendered segment when there is one, and prefixed to the
\* token's own segment only when that is the first rendered segment; and
\* there are as many rendered segments as resolvable tokens.
\* ------------------------------------------------------------------
\* the rendered segments of a transliteration
Segments(w) == IF w = <<>> THEN <<>> ELSE Split(w)

\* a token one of whose notes resolves
Resolvable(t) ==
    \E k \in 1..Len(EventsOfToken(t)) :
        /\ EventsOfToken(t)[k].ev \in {"note", "hold", "grace"}
        /\ _parse_note_token(EventsOfToken(t)[k].payload, default_octave) # None

LowComma(t) == StartsWith(t, <<",">>)

C17_LowCommaBindsBackward ==
    pc = "returned" =>
        LET R == SelectSeq(tokens, Resolvable)
            segs == Segments(western)
        IN  /\ Len(segs) = Len(R)
            /\ \A i \in 1..Len(segs) :
                  /\ StartsWith(segs[i], <<",">>) <=> (i = 1 /\ LowComma(R[1]))
                  /\ EndsWith(segs[i], <<",">>) <=> (i < Len(R) /\ LowComma(R[i + 1]))

\* ",R a ,m:": the first comma is prefixed, the second is appended to the
\* segment of the first token, the fragment in between renders nothing
C17_Witness ==
    /\ pc = "returned"
    /\ ~include_octave
    /\ fragments = <<<<",", "R">>, <<"a">>, <<",", "m", ":">>>>
    /\ tokens = <<<<",", "R">>, <<",", "m", ":">>>>
    /\ western = <<",", "D", ",", " ", "F", ":">>

\* ------------------------------------------------------------------
\* C18: the Western label rendered for a base token of the table, with or
\* without the octave digit, determines the step and alter of the table
\* entry, and two base tokens with different step or alter never render
\* to the same label.
\* ------------------------------------------------------------------
\* the step and alter a label reads as: its first character, and the
\* flat or sharp sign behind it
PitchOfLabel(label) ==
    [step |-> label[1],
     alter |-> IF Len(label) >= 2 /\ label[2] = FLAT THEN -1
               ELSE IF Len(label) >= 2 /\ label[2] = "#" THEN 1
               ELSE 0]

C18_LabelKeepsAccidental ==
    pc = "returned" =>
        LET b == fragments[1][1]
        IN  /\ western # <<>>
            /\ PitchOfLabel(western) = _TOKEN_TO_WESTERN[b]
            /\ \A u \in DOMAIN _TOKEN_TO_WESTERN :
                  _TOKEN_TO_WESTERN[u] # _TOKEN_TO_WESTERN[b] =>
                      western_note_label(<<u>> \o SubSeq(indian_line, 2, Len(indian_line)),
                                         include_octave, default_octave) # western

\* the komal Re in the upper octave, rendered with the octave digit
C18_Witness ==
    /\ pc = "returned"
    /\ indian_line = <<"r", "'">>
    /\ include_octave
    /\ default_octave = 4
    /\ western = <<"D", FLAT, "5">>

\* ------------------------------------------------------------------
\* C19: whatever the mapping file (absent, unreadable, or holding only
\* some of the keys), the loaded table is complete: every base letter of
\* the built-in table resolves.
\* ------------------------------------------------------------------
C19_DefaultLettersResolve ==
    pc = "returned" =>
        /\ BaseLetters \subseteq DOMAIN _TOKEN_TO_WESTERN
        /\ parsed # None

\* ------------------------------------------------------------------
\* C20: no step of a run changes the mapping table or a song record
\* passed in, and the output written for a song does not depend on the
\* songs compiled before it in the batch: equal songs of a batch get
\* equal outputs, the first of them being compiled as if alone.
\* ------------------------------------------------------------------
InputsKept ==
    /\ _NOTATION' = _NOTATION
    /\ _TOKEN_TO_WESTERN' = _TOKEN_TO_WESTERN
    /\ songs' = songs
    /\ song' \in {songs[k] : k \in 1..Len(songs)}

SameSongSameFile ==
    \A i, j \in 1..Len(files) : songs[i] = songs[j] => files[i] = files[j]

C20_InputsKeptSongsIndependent == [][InputsKept]_vars /\ []SameSongSameFile

\* the third song of the batch equals the first and follows a song that
\* ended in its second measure: its file starts again at measure 1
C20_Witness ==
    /\ pc = "done"
    /\ Len(files) = 3
    /\ songs[3] = songs[1]
    /\ songs[2] # songs[1]
    /\ \E k \in 1..Len(files[2]) :
          files[2][k].kind = "measure" /\ files[2][k].number = 2
    /\ files[3] = files[1]
    /\ files[3][1] = MeasureOpen(1, TRUE)

\* ------------------------------------------------------------------
\* Project files
\* ------------------------------------------------------------------
\* disk.top maps the names of the files beside songs/ to their content,
\* disk.songs maps the stem of each songs/<stem>.json to its content.  A
\* content is the JSON value the text parses to and the form of the text:
\* "hand" for a text json.dumps(indent=2) would not produce, "indent2"
\* for its output, "indent2nl" for its output followed by a newline.

\* the partial functions from Names to Contents: the files that exist
Files(Names, Contents) == UNION {[D -> Contents] : D \in SUBSET Names}

\* path.write_text(text): the file is created or replaced
WriteText(dir, name, content) ==
    [n \in DOMAIN dir \cup {name} |-> IF n = name THEN content ELSE dir[n]]

\* sorted(S) for a set of strings: by code point, a proper prefix first
Sorted(S) ==
    LET Chars == <<" ", "-", ".", "a", "b", "j", "n", "o", "s">>
        Rank(c) == CHOOSE i \in 1..Len(Chars) : Chars[i] = c
        Less(x, y) ==
            \E k \in 1..(Len(x) + 1) :
                /\ \A j \in 1..(k - 1) : j <= Len(y) /\ x[j] = y[j]
                /\ k <= Len(y)
                /\ (k = Len(x) + 1 \/ Rank(x[k]) < Rank(y[k]))
    IN  CHOOSE q \in [1..Cardinality(S) -> S] :
            \A i, j \in 1..Cardinality(S) : i < j => Less(q[i], q[j])

\* ------------------------------------------------------------------
\* minimize_songs_json
\* ------------------------------------------------------------------
\* minimize_song, sections flattened: the lines after the two pops and
\* the count returned
minimize_song(lines) ==
    LET Derived == {"western", "tokens"}
    IN  [song |-> [i \in 1..Len(lines) |->
                      Restrict(lines[i], DOMAIN lines[i] \ Derived)],
         removed |-> Cardinality({<<i, k>> \in (1..Len(lines)) \X Derived :
                                     k \in DOMAIN lines[i]})]

\* minimize: the legacy list after the call and the count returned
minimize(list) ==
    LET removed[n \in 0..Len(list)] ==
            IF n = 0 THEN 0 ELSE removed[n - 1] + minimize_song(list[n]).removed
    IN  [songs |-> [i \in 1..Len(list) |-> minimize_song(list[i]).song],
         removed |-> removed[Len(list)]]

\* main when songs/ holds a .json file: every song file is minimized and
\* written back when something was removed
MinimizePerSong ==
    /\ pc = "call"
    /\ DOMAIN disk.songs # {}
    /\ disk' = [disk EXCEPT !.songs =
                  [st \in DOMAIN disk.songs |->
                      LET m == minimize_song(disk.songs[st].data)
                      IN  IF m.removed # 0
                          THEN [data |-> m.song, form |-> "indent2nl"]
                          ELSE disk.songs[st]]]
    /\ LET sfs == Sorted(DOMAIN disk.songs)
           total[n \in 0..Len(sfs)] ==
               IF n = 0 THEN 0
               ELSE total[n - 1] + minimize_song(disk.songs[sfs[n]].data).removed
       IN  ret' = [layout |-> "songs/", removed |-> total[Len(sfs)]]
    /\ pc' = "returned"
    /\ UNCHANGED <<globals, compilevars, callvars, tokens, args>>

\* main otherwise: songs.json is minimized and written to --out, or over
\* itself after a backup when --in-place is set
MinimizeLegacy ==
    /\ pc = "call"
    /\ DOMAIN disk.songs = {}
    /\ IF "songs.json" \notin DOMAIN disk.top
       THEN /\ ret' = [layout |-> "Missing input", removed |-> 0]
            /\ disk' = disk
       ELSE LET inp == disk.top["songs.json"]
                m == minimize(inp.data)
                backed == IF args.in_place /\ "songs.json.bak" \notin DOMAIN disk.top
                          THEN WriteText(disk.top, "songs.json.bak", inp)
                          ELSE disk.top
                outp == IF args.in_place THEN "songs.json" ELSE args.out
            IN  /\ disk' = [disk EXCEPT !.top =
                               WriteText(backed, outp,
                                         [data |-> m.songs, form |-> "indent2"])]
                /\ ret' = [layout |-> "songs.json", removed |-> m.removed]
    /\ pc' = "returned"
    /\ UNCHANGED <<globals, compilevars, callvars, tokens, args>>

\* a project in either layout, both kinds of file possibly present, the
\* lines with or without the derived keys, and the command line
MinInit ==
    /\ LoadedDefault
    /\ NoCompile
    /\ NoCall
    /\ tokens = <<>>
    /\ LET LineObjects == {[k \in {"lyrics", "indian"} \cup D |-> "v"] :
                              D \in SUBSET {"western", "tokens"}}
           SongLines == SeqsUpTo(LineObjects, MaxFileLines) \ {<<>>}
       IN  disk \in [top : Files({"songs.json"},
                                 {[data |-> <<sg>>, form |-> f] :
                                     sg \in SongLines, f \in {"hand", "indent2"}}),
                     songs : Files({<<"a">>, <<"b">>},
                                   {[data |-> sg, form |-> "hand"] : sg \in SongLines})]
    /\ args \in [out : {"songs.clean.json", "songs.json"}, in_place : BOOLEAN]
    /\ ret = None
    /\ pc = "call"

MinSpec == MinInit /\ [][MinimizePerSong \/ MinimizeLegacy]_vars

\* ------------------------------------------------------------------
\* C21: without --in-place (and with --out naming another file than
\* the input) a run leaves songs.json and every songs/<id>.json with
\* the content they had, in both layouts.
\* ------------------------------------------------------------------
C21_InputsUntouchedWithoutInPlace ==
    [][~args.in_place /\ args.out # "songs.json" =>
          /\ \A st \in DOMAIN disk.songs :
                st \in DOMAIN disk'.songs /\ disk'.songs[st] = disk.songs[st]
          /\ "songs.json" \in DOMAIN disk.top =>
                "songs.json" \in DOMAIN disk'.top
                /\ disk'.top["songs.json"] = disk.top["songs.json"]]_vars

\* ------------------------------------------------------------------
\* normalize_export_flags
\* ------------------------------------------------------------------
\* A JSON value is tagged with its Python type: [t |-> "null"],
\* [t |-> "bool", v |-> TRUE], [t |-> "num", v |-> 1], [t |-> "str",
\* v |-> <<"n", "o">>], [t |-> "list", v |-> <<...>>].  A song object is
\* a function of its keys.
_boolish(v, default) ==
    LET s == [i \in 1..Len(Strip(v.v)) |-> CaseFold(Strip(v.v)[i])]
    IN  CASE v.t = "null" -> default
          [] v.t = "bool" -> v.v
          [] v.t = "num" -> v.v # 0
          [] v.t = "str" ->
                IF s \in {<<"t", "r", "u", "e">>, <<"t">>, <<"1">>,
                          <<"y", "e", "s">>, <<"y">>, <<"o", "n">>} THEN TRUE
                ELSE IF s \in {<<"f", "a", "l", "s", "e">>, <<"f">>, <<"0">>,
                               <<"n", "o">>, <<"n">>, <<"o", "f", "f">>} THEN FALSE
                ELSE default
          [] OTHER -> default

\* normalize_export_flags(json_path), json_path being songs.json: the
\* loop over the songs, the write when something changed, and the count
normalize_export_flags ==
    /\ pc = "call"
    /\ LET data == disk.top["songs.json"].data
           Bool(b) == [t |-> "bool", v |-> b]
           updated(sg) ==
               IF "export" \notin DOMAIN sg
               THEN [k \in DOMAIN sg \cup {"export"} |->
                        IF k = "export" THEN Bool(TRUE) ELSE sg[k]]
               ELSE [sg EXCEPT !["export"] = Bool(_boolish(sg["export"], TRUE))]
           songs0 == data.songs.v
           changed == Cardinality({i \in 1..Len(songs0) :
                                      updated(songs0[i]) # songs0[i]})
       IN  IF data.songs.t # "list"
           THEN ret' = [changed |-> 0] /\ disk' = disk
           ELSE /\ ret' = [changed |-> changed]
                /\ disk' = IF changed # 0
                           THEN [disk EXCEPT !.top =
                                   WriteText(disk.top, "songs.json",
                                       [data |-> [songs |->
                                                    [t |-> "list",
                                                     v |-> [i \in 1..Len(songs0) |->
                                                              updated(songs0[i])]]],
                                        form |-> "indent2"])]
                           ELSE disk
    /\ pc' = "returned"
    /\ UNCHANGED <<globals, compilevars, callvars, tokens, args>>

\* songs.json holding up to MaxExportSongs songs, each without an export
\* key or with one of the values a hand-edited file holds; or holding a
\* "songs" value that is not a list
ExportInit ==
    /\ LoadedDefault
    /\ NoCompile
    /\ NoCall
    /\ tokens = <<>>
    /\ LET Values == {[t |-> "null"], [t |-> "bool", v |-> TRUE],
                      [t |-> "bool", v |-> FALSE], [t |-> "num", v |-> 0],
                      [t |-> "num", v |-> 1], [t |-> "str", v |-> <<"n", "o">>],
                      [t |-> "str", v |-> <<"Y", "e", "s", " ">>],
                      [t |-> "str", v |-> <<"m", "a", "y", "b", "e">>]}
           SongObjects == {[k \in {"title"} |-> "v"]}
                          \cup {[k \in {"title", "export"} |->
                                    IF k = "export" THEN x ELSE "v"] : x \in Values}
       IN  disk \in [top : [{"songs.json"} ->
                              [data : [songs : {[t |-> "list", v |-> l] :
                                                   l \in SeqsUpTo(SongObjects, MaxExportSongs)}
                                                 \cup {[t |-> "null"]}],
                               form : {"hand", "indent2"}]],
                     songs : {<<>>}]
    /\ args = <<>>
    /\ ret = None
    /\ pc = "call"

ExportSpec == ExportInit /\ [][normalize_export_flags]_vars

\* ------------------------------------------------------------------
\* C22: after normalize_export_flags every song has an export key; a
\* song that had the key keeps exactly the value it had, a song without
\* it gets true, and the count returned is the number of songs that
\* gained the key.
\* ------------------------------------------------------------------
C22_ExportValuesKept ==
    [][disk.top["songs.json"].data.songs.t = "list" =>
          LET before == disk.top["songs.json"].data.songs.v
              after == disk'.top["songs.json"].data.songs.v
          IN  /\ Len(after) = Len(before)
              /\ \A i \in 1..Len(before) :
                    /\ "export" \in DOMAIN after[i]
                    /\ IF "export" \in DOMAIN before[i]
                       THEN after[i] = before[i]
                       ELSE after[i]["export"] = [t |-> "bool", v |-> TRUE]
              /\ ret'.changed = Cardinality({i \in 1..Len(before) :
                                                "export" \notin DOMAIN before[i]})]_vars

\* ------------------------------------------------------------------
\* load_songs
\* ------------------------------------------------------------------
\* load_all_songs(root): the legacy list when songs/ holds no .json
\* file; else the songs of song_order that have a file, each id once,
\* followed by the files not named, sorted by stem
load_all_songs ==
    /\ pc = "call"
    /\ IF DOMAIN disk.songs = {}
       THEN LET songs0 == disk.top["songs.json"].data.songs
            IN  ret' = [songs |-> IF songs0.t = "list" THEN songs0.v ELSE <<>>]
       ELSE LET order == disk.top["book.json"].data.song_order
                all_files == DOMAIN disk.songs
                loop[n \in 0..Len(order)] ==
                    IF n = 0 THEN [ordered |-> <<>>, seen |-> {}]
                    ELSE LET sid == order[n]
                             prev == loop[n - 1]
                         IN  IF sid \in prev.seen THEN prev
                             ELSE [ordered |-> IF sid \in all_files
                                               THEN Append(prev.ordered, disk.songs[sid].data)
                                               ELSE prev.ordered,
                                   seen |-> prev.seen \cup {sid}]
                listed == loop[Len(order)]
                extra == Sorted(all_files \ listed.seen)
            IN  ret' = [songs |-> listed.ordered
                                    \o [i \in 1..Len(extra) |-> disk.songs[extra[i]].data]]
    /\ pc' = "returned"
    /\ UNCHANGED <<globals, compilevars, callvars, tokens, args, disk>>

\* a project root: book.json with its song_order, up to MaxSongFiles
\* files in songs/, each holding a song with the id of its stem, and a
\* legacy songs.json
SongFilesInit ==
    /\ LoadedDefault
    /\ NoCompile
    /\ NoCall
    /\ tokens = <<>>
    /\ LET Stems == {<<"a">>, <<"a", "-", "b">>, <<"a", "b">>, <<"b">>}
           Dirs == {D \in SUBSET Stems : Cardinality(D) <= MaxSongFiles}
       IN  disk \in [top : {[n \in {"book.json", "songs.json"} |->
                               IF n = "book.json"
                               THEN [data |-> [song_order |-> o], form |-> "indent2nl"]
                               ELSE [data |-> [songs |-> l], form |-> "hand"]] :
                               o \in SeqsUpTo(Stems, MaxOrder),
                               l \in {[t |-> "null"],
                                      [t |-> "list", v |-> <<[id |-> <<"a">>]>>]}},
                     songs : {[st \in D |-> [data |-> [id |-> st], form |-> "indent2nl"]] :
                                 D \in Dirs}]
    /\ args = <<>>
    /\ ret = None
    /\ pc = "call"

SongFilesSpec == SongFilesInit /\ [][load_all_songs]_vars

\* ------------------------------------------------------------------
\* C23: in the per-song layout load_all_songs returns every song file
\* of songs/ exactly once: first the songs named in song_order in that
\* order (an id repeated or without a file is skipped), then all the
\* remaining song files in alphabetical order of file name.
\* ------------------------------------------------------------------
C23_EveryFileOnceInOrder ==
    (pc = "returned" /\ DOMAIN disk.songs # {}) =>
        LET order == disk.top["book.json"].data.song_order
            all_files == DOMAIN disk.songs
            named == {order[i] : i \in 1..Len(order)} \cap all_files
            First(st) == CHOOSE i \in 1..Len(order) :
                            order[i] = st /\ \A j \in 1..(i - 1) : order[j] # st
            Pos(st) == CHOOSE i \in 1..Len(ret.songs) : ret.songs[i].id = st
            json == <<".", "j", "s", "o", "n">>
            names == Sorted({st \o json : st \in all_files \ named})
        IN  /\ Len(ret.songs) = Cardinality(all_files)
            /\ \A st \in all_files : \E i \in 1..Len(ret.songs) : ret.songs[i].id = st
            /\ \A st \in named : Pos(st) <= Cardinality(named)
            /\ \A x, y \in named : First(x) < First(y) => Pos(x) < Pos(y)
            /\ \A i \in 1..Len(names) :
                  ret.songs[Cardinality(named) + i].id \o json = names[i]

\* ------------------------------------------------------------------
\* C24: every token returned by tokenize has exactly one of the three
\* canonical shapes: a plain token (optional leading comma, one base
\* letter, optional octave suffix, at most one trailing hold colon), a
\* meend A~B, or a kan (A)B whose components are plain.
\* ------------------------------------------------------------------
IsPlainShape(t) ==
    \E c \in {<<>>, <<",">>}, b \in BaseLetters,
       o \in {<<>>, <<"'">>, <<".">>, <<RSQUO>>}, h \in {<<>>, <<":">>} :
        t = c \o <<b>> \o o \o h

IsMeendShape(t) ==
    \E k \in 1..Len(t) :
        /\ t[k] = "~"
        /\ IsPlainShape(SubSeq(t, 1, k - 1))
        /\ IsPlainShape(SubSeq(t, k + 1, Len(t)))

IsKanShape(t) ==
    /\ t # <<>>
    /\ t[1] = "("
    /\ \E k \in 2..Len(t) :
          /\ t[k] = ")"
          /\ IsPlainShape(SubSeq(t, 2, k - 1))
          /\ IsPlainShape(SubSeq(t, k + 1, Len(t)))

C24_TokensCanonical ==
    pc = "returned" =>
        \A i \in 1..Len(tokens) :
            IsPlainShape(tokens[i]) \/ IsMeendShape(tokens[i]) \/ IsKanShape(tokens[i])

\* ------------------------------------------------------------------
\* C25: the tokenizer strips a leading low-octave comma and re-attaches
\* it as a trailing dot: tokenize(",X") = ["X."] for a base letter X,
\* and no token returned starts with a comma.
\* ------------------------------------------------------------------
C25_LowCommaBecomesDot ==
    pc = "returned" =>
        /\ \A i \in 1..Len(tokens) : ~StartsWith(tokens[i], <<",">>)
        /\ \A b \in BaseLetters :
              indian_line = <<",", b>> => tokens = << <<b, ".">> >>

\* ------------------------------------------------------------------
\* Single calls of the tokenizer on one fragment with a hold marker
\* ------------------------------------------------------------------
\* a line of one fragment of each recognized kind (plain with optional
\* comma and octave mark, inline komal, meend, kan) followed by one of
\* the hold markers the loop body detects
HoldInit ==
    /\ NoProject
    /\ LoadedDefault
    /\ NoCompile
    /\ LET Octs == {<<>>, <<"'">>, <<".">>}
           Plain == {c \o <<b>> \o o : c \in {<<>>, <<",">>}, b \in BaseLetters, o \in Octs}
           Komal == {<<b, "(", "k", ")">> : b \in {"R", "G", "D", "N"}}
           Meend == {<<x, "~", y>> : x \in BaseLetters, y \in BaseLetters}
           Kan == {<<"(", x, ")", y>> \o o : x \in BaseLetters, y \in BaseLetters, o \in Octs}
       IN  fragments \in {<<f, h>> : f \in Plain \cup Komal \cup Meend \cup Kan,
                                     h \in {<<":">>, <<".", ".", ".">>,
                                            <<"-", "-">>, <<"-", "-", "-">>}}
    /\ indian_line = fragments[1] \o fragments[2]
    /\ tok = <<>>
    /\ parsed = None
    /\ include_octave = FALSE
    /\ western = <<>>
    /\ tokens = <<>>
    /\ pc = "call"

HoldSpec == HoldInit /\ [][Tokenize]_vars

\* ------------------------------------------------------------------
\* C26: a hold marker detected on a recognized fragment (a trailing
\* ':', '...' or a run of two or more dashes) is re-attached to the
\* token emitted for it: the token ends with ':' for plain and inline
\* komal fragments and for kan and meend fragments alike.
\* ------------------------------------------------------------------
C26_HoldReattached ==
    (pc = "returned" /\ tokens # <<>>) =>
        /\ Len(tokens) = 1
        /\ EndsWith(tokens[1], <<":">>)

\* ------------------------------------------------------------------
\* C27: tokenizer output is always compilable: compiling a line of free
\* text, no note, hold or grace event of its tokens is skipped as
\* unresolvable, and the line ends with at least one emitted note per
\* token.
\* ------------------------------------------------------------------
C27_TokenizerOutputCompiles ==
    /\ (AtEvent /\ events[ei].ev \in {"note", "hold", "grace"}) =>
           _parse_note_token(events[ei].payload, default_octave) # None
    /\ pc = "done" => Len(Notes(xml)) >= Len(tokens)

\* ------------------------------------------------------------------
\* C28: with include_octave, the octave digit the transliterator shows
\* for a plain token is the octave the resolver assigns to the same
\* token with the same default_octave, for high, dot-suffixed low and
\* comma-prefixed low tokens alike.
\* ------------------------------------------------------------------
C28_ShownOctaveIsResolvedOctave ==
    (pc = "returned" /\ include_octave /\ Len(fragments) = 1) =>
        LET pn == _parse_note_token(fragments[1], default_octave)
        IN  pn # None => EndsWith(western, IntToStr(pn.octave))

\* ------------------------------------------------------------------
\* C29: at every measure capacity and position, the main note of a kan
\* is emitted into the measure of its grace note: emitting the note
\* that follows an emitted grace note opens no measure, so nothing
\* stands between the two in the output.
\* ------------------------------------------------------------------
MainNoteStep ==
    /\ AtEvent
    /\ ei > 1
    /\ events[ei].ev = "note"
    /\ events[ei - 1].ev = "grace"
    /\ _parse_note_token(events[ei - 1].payload, default_octave) # None
    /\ EmitNote

C29_GraceAndMainSameMeasure ==
    [][MainNoteStep =>
          /\ measure_no' = measure_no
          /\ xml[Len(xml)].kind = "note"
          /\ xml[Len(xml)].grace
          /\ xml' = Append(xml, xml'[Len(xml')])
          /\ ~xml'[Len(xml')].grace]_vars

\* a kan met a full measure of capacity 1: its grace note opened the
\* second measure and its main note followed in that measure
C29_Witness ==
    /\ Capacity = 1
    /\ \E i \in 1..(Len(xml) - 2) :
          /\ xml[i] = MeasureOpen(2, FALSE)
          /\ xml[i + 1].kind = "note" /\ xml[i + 1].grace
          /\ xml[i + 2].kind = "note" /\ ~xml[i + 2].grace

\* ------------------------------------------------------------------
\* Songs of free text at every measure capacity
\* ------------------------------------------------------------------
\* songs without stored tokens: one line of up to MaxFragments
\* fragments (a note, a hold, a meend, a kan, a doubled hold marker, an
\* unrecognized word), or two lines of at most one fragment each
TextInit ==
    /\ NoProject
    /\ beats \in 1..MaxBeats
    /\ divisions \in {1, DefaultDivisions}
    /\ LET Forms == {<<"S">>, <<"G", ":">>, <<"G", "~", "R">>,
                     <<"(", "R", ")", "G">>, <<"S", ":", ":">>, <<"X">>}
           TextLine(fs) == Line(<<>>, Join(fs, <<" ">>))
       IN  song \in {<<TextLine(fs)>> : fs \in SeqsUpTo(Forms, MaxFragments)}
                    \cup {<<TextLine(f1), TextLine(f2)>> :
                             f1 \in SeqsUpTo(Forms, 1), f2 \in SeqsUpTo(Forms, 1)}
    /\ OneSongBatch
    /\ LoadedDefault
    /\ default_octave = DefaultOctave
    /\ NoCall
    /\ pc = "start"
    /\ li = 1
    /\ tokens = <<>>
    /\ events = <<>>
    /\ ei = 1
    /\ xml = <<>>
    /\ measure_no = 1
    /\ current_units = 0
    /\ slur_pending = "None"

TextSpec == TextInit /\ [][Next]_vars

\* ------------------------------------------------------------------
\* C30: at a measure capacity of 2 or more, compiling tokens derived by
\* the tokenizer never leaves a measure empty: the measures are numbered
\* 1, 2, 3, ... in order, each is closed before the next is opened, and
\* in a finished song with at least one note every measure holds at
\* least one duration-consuming note between its opening and closing.
\* ------------------------------------------------------------------
C30_NoEmptyMeasure ==
    Capacity >= 2 =>
        /\ \A i \in 1..Len(xml) :
              xml[i].kind = "measure" =>
                  /\ xml[i].number = Cardinality({j \in 1..i : xml[j].kind = "measure"})
                  /\ xml[i].first = (i = 1)
                  /\ i > 1 => xml[i - 1].kind = "end_measure"
        /\ \A i \in 1..Len(xml) :
              xml[i].kind = "end_measure" =>
                  /\ i > 1
                  /\ xml[i - 1].kind # "end_measure"
                  /\ i < Len(xml) => xml[i + 1].kind = "measure"
        /\ (pc = "done" /\ Notes(xml) # <<>>) =>
              /\ xml[Len(xml)].kind = "end_measure"
              /\ \A i \in 1..Len(xml) :
                    xml[i].kind = "measure" =>
                        \E k \in (i + 1)..Len(xml) :
                            /\ xml[k].kind = "note"
                            /\ ~xml[k].grace
                            /\ xml[k].duration > 0
                            /\ \A j \in (i + 1)..k : xml[j].kind = "note"

\* a song at capacity 2 ended in its third measure, one of its measures
\* having been opened by a grace note and one by a hold
C30_Witness ==
    /\ pc = "done"
    /\ Capacity = 2
    /\ measure_no = 3
    /\ \E i, j \in 1..(Len(xml) - 1) :
          /\ xml[i].kind = "measure" /\ xml[i + 1].kind = "note" /\ xml[i + 1].grace
          /\ xml[j].kind = "measure" /\ ~xml[j].first
          /\ xml[j + 1].kind = "note" /\ xml[j + 1].duration = 2 * DefaultNoteDuration

====
